---- MODULE Spec2Model ----
(***************************************************************************)
(* Model of tmws (Tendermint WebSocket client): the advanced filter        *)
(* engine (src/src/filters/advanced-filters.ts), the basic FilterManager   *)
(* (src/src/index.ts, the filters.ts part), the message handler of the     *)
(* client (src/src/core/client.ts) with the parser it calls                *)
(* (src/src/core/parser.ts), and the connection life cycle of the client   *)
(* (connect, the socket listeners, handleReconnect, subscribe,             *)
(* disconnect).                                                            *)
(*                                                                         *)
(* Representation of JavaScript values                                     *)
(*   string      a sequence of chunks; a chunk is a run of characters      *)
(*               written as a TLA+ string.  The chunking is fine enough    *)
(*               that every literal the code searches for ('wasm', '.',    *)
(*               '/cosmos.staking.') is a whole number of chunks, so       *)
(*               startsWith / endsWith / includes are prefix / suffix /    *)
(*               contiguous-subsequence tests.  '' is << >>.               *)
(*   undefined   the one-chunk sequence Undefined, which is no string of   *)
(*               the input universes.                                      *)
(*   array       a sequence.                                               *)
(*   object used as a map (event.attributes, this.filters)                 *)
(*               a function whose DOMAIN is the set of own keys.           *)
(***************************************************************************)
EXTENDS Integers, Sequences, FiniteSets, TLC

VARIABLES
  condIn,              \* arguments of the last matchesCondition call
  condOut,             \* its return value
  mfIn,                \* arguments of the last matchesFilter call
  mfOut,               \* the return statement it left through
  advFilters,          \* AdvancedFilterEngine.filters
  advOut,              \* last AdvancedFilterEngine.applyFilters call
  anyOut,              \* last AdvancedFilterEngine.matchesAnyFilter call
  walletAddresses,     \* FilterManager.walletAddresses
  wasmContractFilter,  \* FilterManager.wasmContractFilter
  eventFilters,        \* FilterManager.eventFilters
  jsonFilters,         \* FilterManager.filters (the loaded attribute lists)
  filterFiles,         \* the filterFiles configuration (key, file) pairs
  loadPending,         \* loadFilters: its progress and the files not yet read
  fmIn,                \* the transaction FilterManager.applyFilters is given
  fmOut,               \* its return value, and the attribute lists it read
  excludeUnwantedEvents, \* TendermintWSClient.excludeUnwantedEvents
  lastMessage,         \* the data of the last handleWebSocketMessage call
  emitted,             \* the events that call emitted, in order
  parseIn,             \* the MessageParser function called last, with its argument
  parseOut,            \* its return value
  firstHandled,        \* the first handleWebSocketMessage call: its data and events
  maxReconnectAttempts, \* TendermintWSClient.maxReconnectAttempts
  reconnectAttempts,   \* TendermintWSClient.reconnectAttempts
  connected,           \* TendermintWSClient.connected
  ws,                  \* TendermintWSClient.ws: the connect() call that made it, 0 for null
  calls,               \* the connect() calls so far, each with the socket it made
  timers,              \* the reconnect timeouts that are pending
  connEmitted          \* the connection events the last step emitted, in order

vars == << condIn, condOut, mfIn, mfOut, advFilters, advOut, anyOut,
           walletAddresses, wasmContractFilter, eventFilters, jsonFilters,
           filterFiles, loadPending, fmIn, fmOut, excludeUnwantedEvents,
           lastMessage, emitted, parseIn, parseOut, firstHandled,
           maxReconnectAttempts, reconnectAttempts, connected, ws, calls,
           timers, connEmitted >>

condVars   == << condIn, condOut >>
matchVars  == << mfIn, mfOut >>
engineVars == << advFilters, advOut, anyOut >>
fmVars     == << walletAddresses, wasmContractFilter, eventFilters,
                 jsonFilters, filterFiles, loadPending, fmIn, fmOut >>
clientVars == << excludeUnwantedEvents, lastMessage, emitted, firstHandled >>
parserVars == << parseIn, parseOut >>
connVars   == << maxReconnectAttempts, reconnectAttempts, connected, ws, calls,
                 timers, connEmitted >>

-----------------------------------------------------------------------------
(* JavaScript strings                                                      *)

Undefined == << "<undefined>" >>

\* String.prototype.startsWith
StartsWith(s, p) ==
  /\ Len(p) <= Len(s)
  /\ SubSeq(s, 1, Len(p)) = p

\* String.prototype.endsWith
EndsWith(s, p) ==
  /\ Len(p) <= Len(s)
  /\ SubSeq(s, Len(s) - Len(p) + 1, Len(s)) = p

\* String.prototype.includes
Includes(s, p) ==
  \E i \in 0..(Len(s) - Len(p)) : SubSeq(s, i + 1, i + Len(p)) = p

\* Array.prototype.includes, Array.prototype.some over values
ArrayIncludes(arr, v) == \E i \in DOMAIN arr : arr[i] = v

U      == [kind |-> "undefined"]
Str(s) == [kind |-> "string", s |-> s]
Arr(a) == [kind |-> "array", a |-> a]

\* Array.isArray(x) ? x : [x] for a value given as
\* [kind |-> "string", s |-> ...] or [kind |-> "array", a |-> ...]
ToArray(v) == IF v.kind = "array" THEN v.a ELSE << v.s >>

\* Array.prototype.filter
RECURSIVE SelectIdx(_, _, _)
SelectIdx(seq, keep, i) ==
  IF i > Len(seq) THEN << >>
  ELSE (IF i \in keep THEN << seq[i] >> ELSE << >>) \o SelectIdx(seq, keep, i + 1)

\* new RegExp(p): the patterns modelled are literal text with an optional
\* leading ^ and trailing $; a chunk "(" is an unterminated group, for which
\* the constructor throws a SyntaxError.
RegExpThrows(p) == \E i \in DOMAIN p : p[i] = "("

\* new RegExp(p).test(s) for a pattern the constructor accepts
RegExpTest(p, s) ==
  LET atStart == Len(p) > 0 /\ p[1] = "^"
      atEnd   == Len(p) > 0 /\ p[Len(p)] = "$"
      lo      == IF atStart THEN 2 ELSE 1
      hi      == IF atEnd THEN Len(p) - 1 ELSE Len(p)
      body    == SubSeq(p, lo, hi)
  IN  IF atStart /\ atEnd THEN s = body
      ELSE IF atStart THEN StartsWith(s, body)
      ELSE IF atEnd THEN EndsWith(s, body)
      ELSE Includes(s, body)

-----------------------------------------------------------------------------
(* AdvancedFilterEngine.matchesCondition                                   *)

\* the switch on matchType, for one event value and one condition value
ValueMatches(matchType, eventValue, condValue) ==
  CASE matchType = "contains"   -> Includes(eventValue, condValue)
    [] matchType = "startsWith" -> StartsWith(eventValue, condValue)
    [] matchType = "endsWith"   -> EndsWith(eventValue, condValue)
    [] matchType = "regex"      ->
         IF RegExpThrows(condValue) THEN FALSE
         ELSE RegExpTest(condValue, eventValue)
    [] OTHER                    -> eventValue = condValue

\* eventValues.some(ev => valuesToMatch.some(cv => ...))
AnyValueMatches(matchType, eventValues, valuesToMatch) ==
  \E i \in DOMAIN eventValues : \E j \in DOMAIN valuesToMatch :
     ValueMatches(matchType, eventValues[i], valuesToMatch[j])

\* faulty variant: negation is applied before the key and value tests
matchesCondition_NegatedIgnoredOnMissingKey(event, condition) ==
  IF condition.key \notin DOMAIN event.attributes THEN FALSE
  ELSE IF condition.value.kind = "undefined" THEN ~condition.negated
  ELSE LET m == AnyValueMatches(condition.matchType,
                                event.attributes[condition.key],
                                ToArray(condition.value))
       IN IF condition.negated THEN ~m ELSE m

matchesCondition(event, condition) ==
  LET key       == condition.key
      value     == condition.value
      matchType == IF condition.matchType = "undefined"
                   THEN "exact" ELSE condition.matchType
      negated   == condition.negated
  IN  IF key \notin DOMAIN event.attributes THEN negated
      ELSE IF value.kind = "undefined" THEN ~negated
      ELSE LET eventValues   == event.attributes[key]
               valuesToMatch == ToArray(value)
               matches == AnyValueMatches(matchType, eventValues, valuesToMatch)
           IN IF negated THEN ~matches ELSE matches

-----------------------------------------------------------------------------
(* AdvancedFilterEngine.matchesFilter                                      *)
(* A filter is a record; an optional string-or-array field is              *)
(* [kind |-> "undefined"], [kind |-> "string", s |-> ..] or                *)
(* [kind |-> "array", a |-> ..]; an absent condition or sub-filter list is *)
(* << >> (the code tests `list && list.length > 0`, so absent and empty    *)
(* are the same to it).                                                    *)

\* JavaScript truthiness of an optional string-or-array field
Truthy(v) == v.kind = "array" \/ (v.kind = "string" /\ v.s # << >>)

\* the numerals the inputs use, for Number(string)
NumeralValue == [c \in {"0", "5", "7", "100"} |->
                   CASE c = "0" -> 0 [] c = "5" -> 5 [] c = "7" -> 7 [] OTHER -> 100]

NaN == [nan |-> TRUE, n |-> 0]

\* Number(x) for x a string, undefined, or an array of objects
ToNumber(x) ==
  IF x = Undefined THEN NaN
  ELSE IF x = << >> THEN [nan |-> FALSE, n |-> 0]
  ELSE IF Len(x) = 1 /\ x[1] \in DOMAIN NumeralValue
       THEN [nan |-> FALSE, n |-> NumeralValue[x[1]]]
  ELSE NaN

\* tx[field]: the own properties of a DecodedTxResult the inputs name
TxField(tx, field) ==
  CASE field = "height"    -> tx.height
    [] field = "txhash"    -> tx.txhash
    [] field = "gasUsed"   -> tx.gasUsed
    [] field = "gasWanted" -> tx.gasWanted
    [] OTHER               -> Undefined

\* lines 114-117: the txHash test
TxHashRejects(tx, filter) ==
  /\ Truthy(filter.txHash)
  /\ ~ArrayIncludes(ToArray(filter.txHash), tx.txhash)

\* lines 120-127: the range test
RangeRejects(tx, filter) ==
  /\ filter.range.kind # "undefined"
  /\ LET value == ToNumber(TxField(tx, filter.range.field))
     IN  \/ value.nan
         \/ filter.range.hasMin /\ value.n < filter.range.min
         \/ filter.range.hasMax /\ value.n > filter.range.max

\* faulty variant: the eventType constraint is ignored
getMatchingEvents_AllEvents(events, filter) == events

getMatchingEvents(events, filter) ==
  IF ~Truthy(filter.eventType) THEN events
  ELSE LET eventTypes == ToArray(filter.eventType)
       IN  SelectIdx(events,
                     {i \in DOMAIN events : ArrayIncludes(eventTypes, events[i].type)},
                     1)

\* lines 149-151
AnyOfMatches(matchingEvents, filter) ==
  \E i \in DOMAIN matchingEvents : \E j \in DOMAIN filter.anyOf :
     matchesCondition(matchingEvents[i], filter.anyOf[j])

\* faulty variant: every allOf condition must hold on one and the same event
AllOfMatches_SameEvent(matchingEvents, filter) ==
  \E i \in DOMAIN matchingEvents : \A j \in DOMAIN filter.allOf :
     matchesCondition(matchingEvents[i], filter.allOf[j])

\* lines 157-159
AllOfMatches(matchingEvents, filter) ==
  \A j \in DOMAIN filter.allOf : \E i \in DOMAIN matchingEvents :
     matchesCondition(matchingEvents[i], filter.allOf[j])

\* lines 165-167
NoneOfMatches(matchingEvents, filter) ==
  ~ \E i \in DOMAIN matchingEvents : \E j \in DOMAIN filter.noneOf :
       matchesCondition(matchingEvents[i], filter.noneOf[j])

\* lines 172-186: TRUE when the messageType test rejects
MessageTypeRejects(matchingEvents, filter) ==
  /\ Truthy(filter.messageType)
  /\ LET messageTypes  == ToArray(filter.messageType)
         isMessage(e)  == e.type = << "message" >>
         actions(e)    == IF << "action" >> \in DOMAIN e.attributes
                          THEN e.attributes[<< "action" >>] ELSE << >>
     IN  ~ \E i \in DOMAIN matchingEvents :
            /\ isMessage(matchingEvents[i])
            /\ \E a \in DOMAIN actions(matchingEvents[i]) :
                 \E m \in DOMAIN messageTypes :
                    Includes(actions(matchingEvents[i])[a], messageTypes[m])

\* lines 130-134, given the results of the recursive calls on filter.or
OrRejects(subMatches) ==
  Len(subMatches) > 0 /\ ~ \E i \in DOMAIN subMatches : subMatches[i]

\* lines 137-141, given the results of the recursive calls on filter.and
AndRejects(subMatches) ==
  Len(subMatches) > 0 /\ ~ \A i \in DOMAIN subMatches : subMatches[i]

\* faulty variant: the sub-filters are evaluated before the txHash and range tests
EarlyExit_SubFiltersFirst(tx, filter, orMatches, andMatches) ==
  IF OrRejects(orMatches) THEN "or"
  ELSE IF AndRejects(andMatches) THEN "and"
  ELSE IF TxHashRejects(tx, filter) THEN "txHash"
  ELSE IF RangeRejects(tx, filter) THEN "range"
  ELSE "none"

\* lines 113-141: which of the four early `return false` is taken, if any
EarlyExit(tx, filter, orMatches, andMatches) ==
  IF TxHashRejects(tx, filter) THEN "txHash"
  ELSE IF RangeRejects(tx, filter) THEN "range"
  ELSE IF OrRejects(orMatches) THEN "or"
  ELSE IF AndRejects(andMatches) THEN "and"
  ELSE "none"

\* lines 143-189: the return taken once the early tests have passed
EventStageExit(tx, filter) ==
  LET matchingEvents == getMatchingEvents(tx.decodedEvents, filter)
  IN  IF Len(matchingEvents) = 0 THEN "noEvents"
      ELSE IF Len(filter.anyOf) > 0 /\ ~AnyOfMatches(matchingEvents, filter)
           THEN "anyOf"
      ELSE IF Len(filter.allOf) > 0 /\ ~AllOfMatches(matchingEvents, filter)
           THEN "allOf"
      ELSE IF Len(filter.noneOf) > 0 /\ ~NoneOfMatches(matchingEvents, filter)
           THEN "noneOf"
      ELSE IF MessageTypeRejects(matchingEvents, filter) THEN "messageType"
      ELSE "match"

\* matchesFilter, as the name of the return statement it leaves through:
\* "match" is `return true`, every other value is one of the `return false`
RECURSIVE matchesFilterExit(_, _)
matchesFilterExit(tx, filter) ==
  LET orMatches  == [i \in DOMAIN filter.or |->
                       matchesFilterExit(tx, filter.or[i]) = "match"]
      andMatches == [i \in DOMAIN filter.and |->
                       matchesFilterExit(tx, filter.and[i]) = "match"]
      early      == EarlyExit(tx, filter, orMatches, andMatches)
  IN  IF early # "none" THEN early ELSE EventStageExit(tx, filter)

matchesFilter(tx, filter) == matchesFilterExit(tx, filter) = "match"

-----------------------------------------------------------------------------
(* AdvancedFilterEngine: addFilter, clearFilters, applyFilters,            *)
(* matchesAnyFilter                                                        *)

\* faulty variant: the sentinel is not substituted for a missing name
FilterName_Raw(filter) == filter.name

\* filter.name || 'unnamed_filter'
FilterName(filter) ==
  IF filter.name = Undefined \/ filter.name = << >>
  THEN << "unnamed_filter" >> ELSE filter.name

\* faulty variant: an empty filter list rejects every transaction
engineApplyFilters_EmptyFails(filters, tx) ==
  LET matched == SelectIdx(filters,
                   {i \in DOMAIN filters : matchesFilter(tx, filters[i])}, 1)
      names   == [i \in DOMAIN matched |-> FilterName(matched[i])]
  IN  [passed |-> Len(names) > 0, matchedFilters |-> names]

\* AdvancedFilterEngine.applyFilters
engineApplyFilters(filters, tx) ==
  IF Len(filters) = 0 THEN [passed |-> TRUE, matchedFilters |-> << >>]
  ELSE LET matched == SelectIdx(filters,
                        {i \in DOMAIN filters : matchesFilter(tx, filters[i])}, 1)
           names   == [i \in DOMAIN matched |-> FilterName(matched[i])]
       IN  [passed |-> Len(names) > 0, matchedFilters |-> names]

\* AdvancedFilterEngine.matchesAnyFilter
matchesAnyFilter(filters, tx) ==
  IF Len(filters) = 0 THEN TRUE
  ELSE \E i \in DOMAIN filters : matchesFilter(tx, filters[i])

-----------------------------------------------------------------------------
(* FilterManager (the filters.ts part of src/src/index.ts)                 *)
(* wasmContractFilter is [kind |-> "null"] or [kind |-> "array", a |-> ..] *)
(* (the constructor has already wrapped a single string).  An event filter *)
(* is [type, attributes], type an optional string-or-array and attributes  *)
(* [kind |-> "undefined"] or [kind |-> "object", map |-> ..].              *)

\* event.attributes[key] || []
Attr(event, key) ==
  IF key \in DOMAIN event.attributes THEN event.attributes[key] ELSE << >>

\* the concatenation of a sequence of sequences
RECURSIVE Concat(_)
Concat(seqs) == IF Len(seqs) = 0 THEN << >> ELSE Head(seqs) \o Concat(Tail(seqs))

checkWasmContractFilter(wasm, tx) ==
  IF wasm.kind = "null" THEN TRUE
  ELSE \E i \in DOMAIN tx.decodedEvents :
         LET event     == tx.decodedEvents[i]
             actions   == Attr(event, << "action" >>)
             contracts == Attr(event, << "contract" >>)
         IN  /\ event.type = << "message" >>
             /\ \E a \in DOMAIN actions : Includes(actions[a], << "wasm" >>)
             /\ \E c \in DOMAIN contracts : ArrayIncludes(wasm.a, contracts[c])

\* faulty variant: the test on the action is dropped
WalletAction_Any(action) == TRUE

\* lines 168-171: the actions that make a message event a wallet candidate
WalletAction(action) ==
  \/ StartsWith(action, << "/", "cosmos", ".", "staking", "." >>)
  \/ StartsWith(action, << "/", "cosmos", ".", "distribution", "." >>)
  \/ StartsWith(action, << "/", "ibc", "." >>)
  \/ Includes(action, << "wasm" >>)

relevantKeys ==
  << << "sender" >>, << "recipient" >>, << "delegator" >>, << "validator" >>,
     << "spender" >> >>

\* lines 179-190: the evidence one attribute value adds; walletAddresses.find
\* returns the value itself when it is listed, and `if (matchingWallet)` then
\* requires it to be a non-empty string
WalletValueDetails(wallets, action, key, value) ==
  IF ArrayIncludes(wallets, value) /\ value # << >>
  THEN << [action |-> action, role |-> key, address |-> value] >>
  ELSE << >>

\* lines 163-195: matchDetails, in the order the nested forEach loops push
WalletMatchDetails(wallets, tx) ==
  LET forKey(event, action, key) ==
        LET values == Attr(event, key)
        IN  Concat([v \in DOMAIN values |->
                      WalletValueDetails(wallets, action, key, values[v])])
      forAction(event, action) ==
        IF WalletAction(action)
        THEN Concat([k \in DOMAIN relevantKeys |->
                       forKey(event, action, relevantKeys[k])])
        ELSE << >>
      forEvent(event) ==
        IF event.type = << "message" >>
        THEN LET actions == Attr(event, << "action" >>)
             IN  Concat([a \in DOMAIN actions |-> forAction(event, actions[a])])
        ELSE << >>
  IN  Concat([i \in DOMAIN tx.decodedEvents |-> forEvent(tx.decodedEvents[i])])

checkWalletAddressFilter(wallets, tx) ==
  IF Len(wallets) = 0 THEN [matches |-> TRUE, matchDetails |-> << >>]
  ELSE LET matchDetails == WalletMatchDetails(wallets, tx)
       IN  [matches |-> Len(matchDetails) > 0, matchDetails |-> matchDetails]

\* faulty variant: 'receiver' is not consulted for a 'recipient' list
checkJsonFilters_NoAlias(filters, tx) ==
  IF DOMAIN filters = {} THEN TRUE
  ELSE \E i \in DOMAIN tx.decodedEvents : \E filterKey \in DOMAIN filters :
         LET attributeValues == Attr(tx.decodedEvents[i], filterKey)
         IN  \E v \in DOMAIN attributeValues :
               ArrayIncludes(filters[filterKey], attributeValues[v])

checkJsonFilters(filters, tx) ==
  IF DOMAIN filters = {} THEN TRUE
  ELSE \E i \in DOMAIN tx.decodedEvents : \E filterKey \in DOMAIN filters :
         LET event           == tx.decodedEvents[i]
             filterValues    == filters[filterKey]
             attributeValues == Attr(event, filterKey)
             receiverValues  == IF filterKey = << "recipient" >>
                                THEN Attr(event, << "receiver" >>) ELSE << >>
         IN  \/ \E v \in DOMAIN attributeValues :
                  ArrayIncludes(filterValues, attributeValues[v])
             \/ \E v \in DOMAIN receiverValues :
                  ArrayIncludes(filterValues, receiverValues[v])

\* lines 228-249: one event against one event filter
EventFilterMatches(event, filter) ==
  IF Truthy(filter.type) /\ ~ArrayIncludes(ToArray(filter.type), event.type)
  THEN FALSE
  ELSE IF filter.attributes.kind = "object" /\ DOMAIN filter.attributes.map # {}
  THEN \E attrKey \in DOMAIN filter.attributes.map :
         LET eventAttrValues == Attr(event, attrKey)
             attrValuesList  == ToArray(filter.attributes.map[attrKey])
         IN  \E v \in DOMAIN eventAttrValues :
               ArrayIncludes(attrValuesList, eventAttrValues[v])
  ELSE IF filter.attributes.kind = "object" THEN FALSE ELSE TRUE

checkEventFilters(evFilters, tx) ==
  IF Len(evFilters) = 0 THEN TRUE
  ELSE \E i \in DOMAIN tx.decodedEvents : \E f \in DOMAIN evFilters :
         EventFilterMatches(tx.decodedEvents[i], evFilters[f])

\* faulty variant: a record is pushed for every tier whose check holds,
\* configured or not
MatchedFilters_Unguarded(wasm, wallets, filters, evFilters, tx) ==
  LET wasmMatch   == checkWasmContractFilter(wasm, tx)
      wallet      == checkWalletAddressFilter(wallets, tx)
      jsonMatch   == checkJsonFilters(filters, tx)
      eventMatch  == checkEventFilters(evFilters, tx)
  IN  (IF wasmMatch
       THEN << [filterType |-> "wasmContract",
                matches |-> [contractAddresses |-> wasm]] >>
       ELSE << >>)
      \o
      (IF wallet.matches
       THEN << [filterType |-> "walletAddress", matches |-> wallet.matchDetails] >>
       ELSE << >>)
      \o
      (IF jsonMatch
       THEN << [filterType |-> "jsonFilter", matches |-> filters] >>
       ELSE << >>)
      \o
      (IF eventMatch
       THEN << [filterType |-> "eventFilter", matches |-> evFilters] >>
       ELSE << >>)

\* lines 263-299: the evidence records, in the order they are pushed
MatchedFilters(wasm, wallets, filters, evFilters, tx) ==
  LET wasmMatch   == checkWasmContractFilter(wasm, tx)
      wallet      == checkWalletAddressFilter(wallets, tx)
      jsonMatch   == checkJsonFilters(filters, tx)
      eventMatch  == checkEventFilters(evFilters, tx)
  IN  (IF wasm.kind # "null" /\ wasmMatch
       THEN << [filterType |-> "wasmContract",
                matches |-> [contractAddresses |-> wasm.a]] >>
       ELSE << >>)
      \o
      (IF Len(wallets) > 0 /\ wallet.matches
       THEN << [filterType |-> "walletAddress", matches |-> wallet.matchDetails] >>
       ELSE << >>)
      \o
      (IF DOMAIN filters # {} /\ jsonMatch
       THEN << [filterType |-> "jsonFilter", matches |-> filters] >>
       ELSE << >>)
      \o
      (IF Len(evFilters) > 0 /\ eventMatch
       THEN << [filterType |-> "eventFilter", matches |-> evFilters] >>
       ELSE << >>)

\* faulty variant: an unmatched event filter tier does not fail the transaction
Passed_EventTierIgnored(wasm, wallets, filters, evFilters, tx) ==
  /\ ~(wasm.kind # "null" /\ ~checkWasmContractFilter(wasm, tx))
  /\ ~(Len(wallets) > 0 /\ ~checkWalletAddressFilter(wallets, tx).matches)
  /\ ~(DOMAIN filters # {} /\ ~checkJsonFilters(filters, tx))

\* lines 302-308
Passed(wasm, wallets, filters, evFilters, tx) ==
  /\ ~(wasm.kind # "null" /\ ~checkWasmContractFilter(wasm, tx))
  /\ ~(Len(wallets) > 0 /\ ~checkWalletAddressFilter(wallets, tx).matches)
  /\ ~(DOMAIN filters # {} /\ ~checkJsonFilters(filters, tx))
  /\ ~(Len(evFilters) > 0 /\ ~checkEventFilters(evFilters, tx))

\* FilterManager.applyFilters
applyFilters(wasm, wallets, filters, evFilters, tx) ==
  [passed         |-> Passed(wasm, wallets, filters, evFilters, tx),
   matchedFilters |-> MatchedFilters(wasm, wallets, filters, evFilters, tx)]

\* lines 115-123 for one (key, file) entry: the attribute lists after the
\* file was read; a file that is missing, unreadable or no JSON array throws
FileLoads(file) == file.kind = "array"

FiltersAfterFile(filters, entry) == (entry.key :> entry.file.a) @@ filters

-----------------------------------------------------------------------------
(* MessageParser (src/src/core/parser.ts)                                  *)
(* A parsed message is [hasId, result, events]; an optional object is      *)
(* [kind |-> "undefined"] or [kind |-> "object", ...]; a flattened events  *)
(* map is [kind |-> "object", entries |-> << [key, values], .. >>] with    *)
(* its keys in insertion order.  The base64 text of a string t is written  *)
(* << "b64:" >> \o t: the chunk "b64:" says that what follows is encoded,  *)
(* and a chunk "\x01" in t is a control character.                         *)

IsObject(x) == x.kind = "object"

\* a string that is neither undefined nor ''
StrTruthy(x) == x # Undefined /\ x # << >>

\* flatEvents[key] for a flattened events map
FlatGet(flat, key) ==
  IF \E i \in DOMAIN flat.entries : flat.entries[i].key = key
  THEN LET i == CHOOSE i \in DOMAIN flat.entries : flat.entries[i].key = key
       IN  Arr(flat.entries[i].values)
  ELSE [kind |-> "undefined"]

AggregateVoteKey == << "aggregate_vote", ".", "exchange_rates" >>

\* faulty variant: only result.events is inspected
containsUnwantedEvents_ResultOnly(message) ==
  /\ IsObject(message.result)
  /\ IsObject(message.result.events)
  /\ FlatGet(message.result.events, AggregateVoteKey).kind = "array"

\* MessageParser.containsUnwantedEvents
containsUnwantedEvents(message) ==
  \/ /\ IsObject(message.result)
     /\ IsObject(message.result.events)
     /\ FlatGet(message.result.events, AggregateVoteKey).kind = "array"
  \/ /\ IsObject(message.events)
     /\ FlatGet(message.events, AggregateVoteKey).kind = "array"

\* MessageParser.isSubscriptionConfirmation
isSubscriptionConfirmation(message) ==
  /\ message.hasId
  /\ IsObject(message.result)
  /\ ~IsObject(message.result.data)
  /\ ~IsObject(message.result.events)

\* MessageParser.isBase64
isBase64(str) ==
  /\ str # Undefined
  /\ Len(str) > 1
  /\ str[1] = "b64:"
  /\ \A i \in 2..Len(str) : str[i] # "\\x01"

\* MessageParser.decodeBase64
decodeBase64(str) ==
  IF Len(str) > 0 /\ str[1] = "b64:" THEN Tail(str) ELSE str

\* /^osmo1[a-zA-Z0-9]{38,58}$/: the chunk after "osmo1" abbreviates the
\* 38 to 58 alphanumeric characters of an address
AddressBodies == { "aaa", "bbb", "ccc", "contract" }

IsOsmoAddress(value) ==
  Len(value) = 2 /\ value[1] = "osmo1" /\ value[2] \in AddressBodies

\* value.includes('osmo1'): the base64 text of a string does not show the
\* characters of the string
IncludesOsmo1(value) ==
  /\ ~(Len(value) > 0 /\ value[1] = "b64:")
  /\ Includes(value, << "osmo1" >>)

\* MessageParser.decodeCosmosAddress
decodeCosmosAddress(key, value) ==
  LET addressKeys == { << "sender" >>, << "recipient" >>, << "receiver" >>,
                       << "delegator" >>, << "validator" >> }
  IN  IF key \in addressKeys /\ IncludesOsmo1(value) THEN value
      ELSE IF IsOsmoAddress(value) THEN value
      ELSE IF isBase64(value) /\ IsOsmoAddress(decodeBase64(value))
           THEN decodeBase64(value)
      ELSE value

\* key.split('.')[0] and the test parts.length > 1
HasDot(key) == \E i \in DOMAIN key : key[i] = "."

FirstSegment(key) ==
  LET dot == CHOOSE i \in DOMAIN key : key[i] = "." /\ \A j \in 1..(i - 1) : key[j] # "."
  IN  SubSeq(key, 1, dot - 1)

\* the elements of a sequence in order of first appearance (a Set's order)
RECURSIVE Distinct(_)
Distinct(seq) ==
  IF Len(seq) = 0 THEN << >>
  ELSE LET front == Distinct(SubSeq(seq, 1, Len(seq) - 1))
           last  == seq[Len(seq)]
       IN  IF ArrayIncludes(front, last) THEN front ELSE Append(front, last)

\* MessageParser.convertFlatEventsToEventObjects
convertFlatEventsToEventObjects(flatEvents) ==
  LET entries    == flatEvents.entries
      dotted     == SelectIdx(entries, {i \in DOMAIN entries : HasDot(entries[i].key)}, 1)
      eventTypes == Distinct([i \in DOMAIN dotted |-> FirstSegment(dotted[i].key)])
      attrsOf(eventType) ==
        Concat([i \in DOMAIN entries |->
                  IF StartsWith(entries[i].key, eventType \o << "." >>)
                  THEN [v \in DOMAIN entries[i].values |->
                          [key   |-> SubSeq(entries[i].key, Len(eventType) + 2,
                                            Len(entries[i].key)),
                           value |-> entries[i].values[v],
                           index |-> TRUE]]
                  ELSE << >>])
      all == [t \in DOMAIN eventTypes |->
                [type |-> eventTypes[t], attributes |-> attrsOf(eventTypes[t])]]
  IN  SelectIdx(all, {t \in DOMAIN all : Len(all[t].attributes) > 0}, 1)

\* lines 63 and 120-121: whether extractTxResult finds a TxResult payload
HasTxResult(message) ==
  /\ IsObject(message.result)
  /\ IsObject(message.result.data)
  /\ IsObject(message.result.data.TxResult)

\* lines 67-97: the transaction hash, first location that has one
ExtractTxHash(message) ==
  LET value    == message.result.data
      txResult == value.TxResult
      inFlat(flat) ==
        /\ IsObject(flat)
        /\ FlatGet(flat, << "tx", ".", "hash" >>).kind = "array"
        /\ Len(FlatGet(flat, << "tx", ".", "hash" >>).a) > 0
  IN  IF StrTruthy(txResult.hash) THEN txResult.hash
      ELSE IF StrTruthy(value.hash) THEN value.hash
      ELSE IF IsObject(txResult.tx_result) /\ StrTruthy(txResult.tx_result.hash)
           THEN txResult.tx_result.hash
      ELSE IF inFlat(message.events)
           THEN FlatGet(message.events, << "tx", ".", "hash" >>).a[1]
      ELSE IF inFlat(message.result.events)
           THEN FlatGet(message.result.events, << "tx", ".", "hash" >>).a[1]
      ELSE Undefined

\* faulty variant: a flattened map is used even when the structured list
\* has events
ExtractEvents_FlatFirst(message) ==
  IF IsObject(message.events)
  THEN convertFlatEventsToEventObjects(message.events)
  ELSE IF IsObject(message.result.events)
  THEN convertFlatEventsToEventObjects(message.result.events)
  ELSE << >>

\* lines 100-111: the event list, structured first, flattened otherwise
ExtractEvents(message) ==
  LET txResult == message.result.data.TxResult
      listed(r) == IsObject(r) /\ r.events.kind = "array"
      events0  == IF listed(txResult.result) THEN txResult.result.events.a
                  ELSE IF listed(txResult.tx_result) THEN txResult.tx_result.events.a
                  ELSE << >>
      events1  == IF Len(events0) = 0 /\ IsObject(message.events)
                  THEN convertFlatEventsToEventObjects(message.events)
                  ELSE events0
  IN  IF Len(events1) = 0 /\ IsObject(message.result.events)
      THEN convertFlatEventsToEventObjects(message.result.events)
      ELSE events1

\* lines 117-118: result?.gas || tx_result?.gas || '0'
ExtractGas(txResult, wanted) ==
  LET gas(r) == IF wanted THEN r.gas_wanted ELSE r.gas_used
  IN  IF IsObject(txResult.result) /\ StrTruthy(gas(txResult.result))
      THEN gas(txResult.result)
      ELSE IF IsObject(txResult.tx_result) /\ StrTruthy(gas(txResult.tx_result))
      THEN gas(txResult.tx_result)
      ELSE << "0" >>

\* MessageParser.extractTxResult, for a message that has a TxResult payload
extractTxResult(message) ==
  [height    |-> message.result.data.TxResult.height,
   txhash    |-> ExtractTxHash(message),
   events    |-> ExtractEvents(message),
   gasWanted |-> ExtractGas(message.result.data.TxResult, TRUE),
   gasUsed   |-> ExtractGas(message.result.data.TxResult, FALSE)]

\* lines 179-211: one raw attribute with its decoded key and value
DecodeAttribute(attr) ==
  LET keyIsBase64   == isBase64(attr.key)
      valueIsBase64 == isBase64(attr.value)
      decodedKey    == IF keyIsBase64 THEN decodeBase64(attr.key) ELSE attr.key
      decodedValue  ==
        IF valueIsBase64
        THEN IF decodedKey \in { << "sender" >>, << "recipient" >>,
                                 << "delegator" >>, << "validator" >> }
             THEN decodeCosmosAddress(decodedKey, attr.value)
             ELSE decodeBase64(attr.value)
        ELSE attr.value
  IN  [key |-> attr.key, value |-> attr.value, index |-> attr.index,
       decodedKey |-> decodedKey, decodedValue |-> decodedValue]

\* lines 200-204: decodedAttributes after the first n raw attributes
RECURSIVE GroupAttributes(_, _)
GroupAttributes(rawAttributes, n) ==
  IF n = 0 THEN [k \in {} |-> << >>]
  ELSE LET decodedAttributes == GroupAttributes(rawAttributes, n - 1)
           decodedKey   == rawAttributes[n].decodedKey
           decodedValue == rawAttributes[n].decodedValue
       IN  IF decodedKey \in DOMAIN decodedAttributes
           THEN [decodedAttributes EXCEPT ![decodedKey] = Append(@, decodedValue)]
           ELSE (decodedKey :> << decodedValue >>) @@ decodedAttributes

\* faulty variant: a value is kept once per key
decodeEvents_Deduplicated(events) ==
  [e \in DOMAIN events |->
     LET rawAttributes == [a \in DOMAIN events[e].attributes |->
                             DecodeAttribute(events[e].attributes[a])]
         grouped == GroupAttributes(rawAttributes, Len(rawAttributes))
     IN  [type          |-> events[e].type,
          attributes    |-> [k \in DOMAIN grouped |-> Distinct(grouped[k])],
          rawAttributes |-> rawAttributes]]

\* MessageParser.decodeEvents
decodeEvents(events) ==
  [e \in DOMAIN events |->
     LET rawAttributes == [a \in DOMAIN events[e].attributes |->
                             DecodeAttribute(events[e].attributes[a])]
     IN  [type          |-> events[e].type,
          attributes    |-> GroupAttributes(rawAttributes, Len(rawAttributes)),
          rawAttributes |-> rawAttributes]]

\* extractTransferData with arrays in place of the Sets: every value collected
\* is kept, repeated ones included
extractTransferData_NoDedup(events) ==
  LET collect(key) == Concat([e \in DOMAIN events |-> Attr(events[e], key)])
  IN  [senders    |-> collect(<< "sender" >>),
       receivers  |-> collect(<< "receiver" >>),
       recipients |-> collect(<< "recipient" >>),
       spenders   |-> collect(<< "spender" >>),
       amounts    |-> collect(<< "amount" >>)]

\* MessageParser.extractTransferData: each Set as the array of its members
\* in insertion order
extractTransferData(events) ==
  LET collect(key) ==
        Distinct(Concat([e \in DOMAIN events |-> Attr(events[e], key)]))
  IN  [senders    |-> collect(<< "sender" >>),
       receivers  |-> collect(<< "receiver" >>),
       recipients |-> collect(<< "recipient" >>),
       spenders   |-> collect(<< "spender" >>),
       amounts    |-> collect(<< "amount" >>)]

\* MessageParser.processTxMessage, for a message that has a TxResult payload
processTxMessage(message) ==
  LET txResult      == extractTxResult(message)
      decodedEvents == decodeEvents(txResult.events)
  IN  [height        |-> txResult.height,
       txhash        |-> txResult.txhash,
       events        |-> decodedEvents,
       decodedEvents |-> decodedEvents,
       gasWanted     |-> txResult.gasWanted,
       gasUsed       |-> txResult.gasUsed,
       transferData  |-> extractTransferData(decodedEvents)]

\* GenericTransformer.transformEvents, which no transformer overrides
transformEvents(decodedTx) == decodedTx

-----------------------------------------------------------------------------
(* TendermintWSClient.handleWebSocketMessage                               *)

Emit(type, payload) == [type |-> type, payload |-> payload]

\* lines 293-299
hasStakingOp(tx) ==
  \E i \in DOMAIN tx.decodedEvents :
    /\ tx.decodedEvents[i].type = << "message" >>
    /\ \E a \in DOMAIN Attr(tx.decodedEvents[i], << "action" >>) :
         \/ Includes(Attr(tx.decodedEvents[i], << "action" >>)[a],
                     << "cosmos", ".", "staking" >>)
         \/ Includes(Attr(tx.decodedEvents[i], << "action" >>)[a],
                     << "cosmos", ".", "distribution" >>)

\* faulty variant: the specialized events come before the FilteredTx event
EmitFiltered_SpecializedFirst(wasm, wallets, filters, evFilters, engine, transformedTx) ==
  LET basic == applyFilters(wasm, wallets, filters, evFilters, transformedTx)
      finalTx == [tx |-> transformedTx, matchedFilters |-> basic.matchedFilters]
      has(tier) == \E i \in DOMAIN basic.matchedFilters :
                      basic.matchedFilters[i].filterType = tier
  IN  IF basic.passed
      THEN (IF has("wasmContract") THEN << Emit("wasm_tx", finalTx) >> ELSE << >>)
           \o (IF has("walletAddress") THEN << Emit("wallet_tx", finalTx) >> ELSE << >>)
           \o (IF hasStakingOp(transformedTx)
               THEN << Emit("staking_tx", finalTx) >> ELSE << >>)
           \o << Emit("filtered_tx", finalTx) >>
      ELSE << >>

\* lines 271-304: what is emitted after the Tx event.  The result of
\* advancedFilterEngine.applyFilters (line 272) is computed and not read.
EmitFiltered(wasm, wallets, filters, evFilters, engine, transformedTx) ==
  LET basic == applyFilters(wasm, wallets, filters, evFilters, transformedTx)
      advancedFilterResult == engineApplyFilters(engine, transformedTx)
      finalTx == [tx |-> transformedTx, matchedFilters |-> basic.matchedFilters]
      has(tier) == \E i \in DOMAIN basic.matchedFilters :
                      basic.matchedFilters[i].filterType = tier
  IN  IF basic.passed
      THEN << Emit("filtered_tx", finalTx) >>
           \o (IF has("wasmContract") THEN << Emit("wasm_tx", finalTx) >> ELSE << >>)
           \o (IF has("walletAddress") THEN << Emit("wallet_tx", finalTx) >> ELSE << >>)
           \o (IF hasStakingOp(transformedTx)
               THEN << Emit("staking_tx", finalTx) >> ELSE << >>)
      ELSE << >>

\* faulty variant: the Tx event is emitted only for a transaction that passes
HandlerEmits_TxAfterFilter(exclude, wasm, wallets, filters, evFilters, engine, data) ==
  IF ~data.parses THEN << >>
  ELSE LET message == data.message
       IN  << Emit("message", message) >> \o
           ( IF exclude /\ containsUnwantedEvents(message) THEN << >>
             ELSE IF isSubscriptionConfirmation(message)
             THEN << Emit("subscription_confirmed", message) >>
             ELSE IF ~HasTxResult(message) THEN << >>
             ELSE LET transformedTx == transformEvents(processTxMessage(message))
                      rest == EmitFiltered(wasm, wallets, filters, evFilters,
                                           engine, transformedTx)
                  IN  IF Len(rest) > 0
                      THEN << Emit("tx", transformedTx) >> \o rest ELSE << >> )

\* faulty variant: a frame equal to the one handled last is dropped as a
\* duplicate
HandlerEmits_SkipRepeated(exclude, wasm, wallets, filters, evFilters, engine, data) ==
  IF ~data.parses \/ (lastMessage.handled /\ lastMessage.data = data) THEN << >>
  ELSE LET message == data.message
       IN  << Emit("message", message) >> \o
           ( IF exclude /\ containsUnwantedEvents(message) THEN << >>
             ELSE IF isSubscriptionConfirmation(message)
             THEN << Emit("subscription_confirmed", message) >>
             ELSE IF ~HasTxResult(message) THEN << >>
             ELSE LET transformedTx == transformEvents(processTxMessage(message))
                  IN  << Emit("tx", transformedTx) >>
                      \o EmitFiltered(wasm, wallets, filters, evFilters,
                                      engine, transformedTx) )

\* lines 233-305: the events one call emits, in order
HandlerEmits(exclude, wasm, wallets, filters, evFilters, engine, data) ==
  IF ~data.parses THEN << >>
  ELSE LET message == data.message
       IN  << Emit("message", message) >> \o
           ( IF exclude /\ containsUnwantedEvents(message) THEN << >>
             ELSE IF isSubscriptionConfirmation(message)
             THEN << Emit("subscription_confirmed", message) >>
             ELSE IF ~HasTxResult(message) THEN << >>
             ELSE LET transformedTx == transformEvents(processTxMessage(message))
                  IN  << Emit("tx", transformedTx) >>
                      \o EmitFiltered(wasm, wallets, filters, evFilters,
                                      engine, transformedTx) )

-----------------------------------------------------------------------------
(* MessageParser: the facts extracted from decoded events and the          *)
(* classification (src/src/core/parser.ts 297-604).  In an amount each     *)
(* digit is a chunk of its own and a denomination is one chunk.            *)

\* event.attributes[key]?.[0]
First(event, key) ==
  IF Attr(event, key) = << >> THEN Undefined ELSE Attr(event, key)[1]

\* a || b on optional strings
OrElse(a, b) == IF StrTruthy(a) THEN a ELSE b

Digits == { "0", "1", "2", "3", "4", "5", "6", "7", "8", "9" }

\* the length of the longest prefix of digits
DigitPrefixLen(str) ==
  IF \E i \in DOMAIN str : str[i] \notin Digits
  THEN (CHOOSE i \in DOMAIN str :
          str[i] \notin Digits /\ \A j \in 1..(i - 1) : str[j] \in Digits) - 1
  ELSE Len(str)

\* amount.match(/^([0-9]+)(.+)$/): the two groups, or no match.  [0-9]+ is
\* greedy and (.+) needs one character, so an amount of digits only gives
\* its last digit to the second group.
AmountMatch(amount) ==
  LET n == DigitPrefixLen(amount)
  IN  IF n >= 1 /\ Len(amount) >= 2
      THEN LET cut == IF n = Len(amount) THEN n - 1 ELSE n
           IN  [matched |-> TRUE,
                amount  |-> SubSeq(amount, 1, cut),
                denom   |-> SubSeq(amount, cut + 1, Len(amount))]
      ELSE [matched |-> FALSE]

\* lines 342-353 (and 372-383, 402-413, 433-444): amountValue, denomValue
SplitAmount(amount) ==
  IF ~StrTruthy(amount) THEN [amount |-> << >>, denom |-> << >>]
  ELSE IF AmountMatch(amount).matched
       THEN [amount |-> AmountMatch(amount).amount, denom |-> AmountMatch(amount).denom]
       ELSE [amount |-> amount, denom |-> << >>]

\* the chunks of letters and '/' that occur in token amounts
LetterChunks == { "uosmo", "uatom", "ibc", "/", "stake" }

\* token.replace(/[a-zA-Z\/]/g, '')
StripLetters(token) ==
  SelectIdx(token, {i \in DOMAIN token : token[i] \notin LetterChunks}, 1)

\* lines 302-321: the swap fact of one event, as zero or one records
SwapFactOf(event) ==
  LET poolId   == First(event, << "pool_id" >>)
      tokenIn  == First(event, << "tokens_in" >>)
      tokenOut == First(event, << "tokens_out" >>)
      sender   == First(event, << "sender" >>)
  IN  IF /\ event.type = << "token_swapped" >>
         /\ StrTruthy(poolId) /\ StrTruthy(tokenIn) /\ StrTruthy(tokenOut)
      THEN << [poolId    |-> poolId,
               tokenIn   |-> tokenIn,
               tokenOut  |-> tokenOut,
               amountIn  |-> OrElse(StripLetters(tokenIn), tokenIn),
               amountOut |-> OrElse(StripLetters(tokenOut), tokenOut),
               sender    |-> OrElse(sender, << >>)] >>
      ELSE << >>

\* MessageParser.extractSwapDetails
extractSwapDetails(events) ==
  Concat([e \in DOMAIN events |-> SwapFactOf(events[e])])

\* event.attributes['action']?.some(a => a.includes(name))
ActionIncludes(event, name) ==
  \E a \in DOMAIN Attr(event, << "action" >>) :
    Includes(Attr(event, << "action" >>)[a], name)

\* lines 335, 363, 393, 423: the branch an event takes in extractStakingDetails
StakingBranch(event) ==
  IF event.type = << "withdraw_rewards" >> THEN "withdraw_rewards"
  ELSE IF event.type = << "delegate" >> \/ ActionIncludes(event, << "MsgDelegate" >>)
       THEN "delegate"
  ELSE IF event.type = << "unbond" >> \/ ActionIncludes(event, << "MsgUndelegate" >>)
       THEN "undelegate"
  ELSE IF event.type = << "redelegate" >>
          \/ ActionIncludes(event, << "MsgBeginRedelegate" >>)
       THEN "redelegate"
  ELSE "none"

\* lines 335-456: the staking fact of one event, as zero or one records
StakingFactOf(event) ==
  LET branch    == StakingBranch(event)
      delegator == IF branch = "withdraw_rewards"
                   THEN First(event, << "delegator" >>)
                   ELSE OrElse(First(event, << "delegator" >>),
                               First(event, << "sender" >>))
      validator == First(event, << "validator" >>)
      sourceValidator      == First(event, << "source_validator" >>)
      destinationValidator == First(event, << "destination_validator" >>)
      split     == SplitAmount(First(event, << "amount" >>))
  IN  IF branch = "none" THEN << >>
      ELSE IF branch = "redelegate"
      THEN IF /\ StrTruthy(delegator)
              /\ (StrTruthy(sourceValidator) \/ StrTruthy(destinationValidator))
           THEN << [action    |-> "redelegate",
                    delegator |-> delegator,
                    validator |-> OrElse(destinationValidator, sourceValidator),
                    amount    |-> split.amount,
                    denom     |-> split.denom,
                    sourceValidator      |-> sourceValidator,
                    destinationValidator |-> destinationValidator] >>
           ELSE << >>
      ELSE IF StrTruthy(delegator) /\ StrTruthy(validator)
           THEN << [action    |-> branch,
                    delegator |-> delegator,
                    validator |-> validator,
                    amount    |-> split.amount,
                    denom     |-> split.denom] >>
           ELSE << >>

\* MessageParser.extractStakingDetails
extractStakingDetails(events) ==
  Concat([e \in DOMAIN events |-> StakingFactOf(events[e])])

\* lines 479-511: the fact of one transfer event under one send_packet
IBCFactOf(packet, te) ==
  LET sourcePort    == First(packet, << "packet_src_port" >>)
      sourceChannel == First(packet, << "packet_src_channel" >>)
      sender   == First(te, << "sender" >>)
      receiver == First(te, << "recipient" >>)
      amount   == First(te, << "amount" >>)
      match    == AmountMatch(amount)
  IN  IF /\ StrTruthy(sender) /\ StrTruthy(receiver)
         /\ StrTruthy(amount) /\ StrTruthy(sourceChannel)
      THEN << [sender        |-> sender,
               receiver      |-> receiver,
               sourceChannel |-> sourceChannel,
               sourcePort    |-> sourcePort,
               destChannel   |-> First(packet, << "packet_dst_channel" >>),
               destPort      |-> First(packet, << "packet_dst_port" >>),
               amount        |-> IF match.matched THEN match.amount ELSE amount,
               denom         |-> IF match.matched THEN match.denom ELSE << >>] >>
      ELSE << >>

\* MessageParser.extractIBCDetails
extractIBCDetails(events) ==
  LET transferEvents ==
        SelectIdx(events, {i \in DOMAIN events : events[i].type = << "transfer" >>}, 1)
      forPacket(event) ==
        IF /\ event.type = << "send_packet" >>
           /\ Len(transferEvents) > 0
           /\ First(event, << "packet_src_port" >>) = << "transfer" >>
        THEN Concat([t \in DOMAIN transferEvents |-> IBCFactOf(event, transferEvents[t])])
        ELSE << >>
  IN  Concat([e \in DOMAIN events |-> forPacket(events[e])])

\* lines 553-572: the classification by the actions of the message events
TypeFromActions(decodedEvents) ==
  LET messageEvents ==
        SelectIdx(decodedEvents,
                  {i \in DOMAIN decodedEvents : decodedEvents[i].type = << "message" >>}, 1)
      actions == Concat([e \in DOMAIN messageEvents |->
                           Attr(messageEvents[e], << "action" >>)])
      some(name) == \E a \in DOMAIN actions : Includes(actions[a], name)
  IN  IF some(<< "MsgSwap", "ExactAmountIn" >>) \/ some(<< "MsgSwap" >>) THEN "swap"
      ELSE IF some(<< "MsgDelegate" >>) THEN "delegate"
      ELSE IF some(<< "MsgUndelegate" >>) THEN "undelegate"
      ELSE IF some(<< "MsgBeginRedelegate" >>) THEN "redelegate"
      ELSE IF some(<< "MsgWithdrawDelegatorReward" >>) THEN "withdraw_rewards"
      ELSE IF some(<< "MsgVote" >>) THEN "governance_vote"
      ELSE IF some(<< "MsgDeposit" >>) THEN "proposal_deposit"
      ELSE "undefined"

\* lines 576-594: the classification by the extracted facts and event types
TypeFromFacts(decodedEvents, swapDetails, stakingDetails, ibcDetails) ==
  IF Len(swapDetails) > 0 THEN "swap"
  ELSE IF Len(stakingDetails) > 0 THEN stakingDetails[1].action
  ELSE IF Len(ibcDetails) > 0 THEN "ibc_transfer"
  ELSE IF \E i \in DOMAIN decodedEvents : decodedEvents[i].type = << "transfer" >>
       THEN "transfer"
  ELSE IF \E i \in DOMAIN decodedEvents :
            decodedEvents[i].type = << "withdraw_position" >>
       THEN "withdraw"
  ELSE "undefined"

\* faulty variant: the facts are consulted before the message actions
TxType_FactsFirst(decodedEvents, swapDetails, stakingDetails, ibcDetails) ==
  IF TypeFromFacts(decodedEvents, swapDetails, stakingDetails, ibcDetails) # "undefined"
  THEN TypeFromFacts(decodedEvents, swapDetails, stakingDetails, ibcDetails)
  ELSE TypeFromActions(decodedEvents)

\* lines 550-595: txType
TxType(decodedEvents, swapDetails, stakingDetails, ibcDetails) ==
  IF TypeFromActions(decodedEvents) # "undefined"
  THEN TypeFromActions(decodedEvents)
  ELSE TypeFromFacts(decodedEvents, swapDetails, stakingDetails, ibcDetails)

\* MessageParser.processEnhancedTxMessage
processEnhancedTxMessage(message) ==
  IF ~HasTxResult(message) THEN [kind |-> "null"]
  ELSE LET baseTx         == processTxMessage(message)
           swapDetails    == extractSwapDetails(baseTx.decodedEvents)
           stakingDetails == extractStakingDetails(baseTx.decodedEvents)
           ibcDetails     == extractIBCDetails(baseTx.decodedEvents)
       IN  [kind           |-> "object",
            tx             |-> baseTx,
            swapDetails    |-> swapDetails,
            stakingDetails |-> stakingDetails,
            ibcDetails     |-> ibcDetails,
            txType         |-> TxType(baseTx.decodedEvents, swapDetails,
                                      stakingDetails, ibcDetails)]

-----------------------------------------------------------------------------
(* Buffer: UTF-8 and base64 at the level of code units                     *)
(*                                                                         *)
(* A string is the sequence of its UTF-16 code units, a Buffer the         *)
(* sequence of its bytes, and base64 text a sequence of one-character      *)
(* strings.                                                                *)

IsHighSurrogate(u) == u >= 55296 /\ u <= 56319
IsLowSurrogate(u)  == u >= 56320 /\ u <= 57343

\* the UTF-8 bytes of one code point
Utf8Bytes(cp) ==
  IF cp < 128 THEN << cp >>
  ELSE IF cp < 2048 THEN << 192 + cp \div 64, 128 + (cp % 64) >>
  ELSE IF cp < 65536
    THEN << 224 + cp \div 4096, 128 + ((cp \div 64) % 64), 128 + (cp % 64) >>
  ELSE << 240 + cp \div 262144, 128 + ((cp \div 4096) % 64),
          128 + ((cp \div 64) % 64), 128 + (cp % 64) >>

\* Buffer.from(str): a surrogate pair is one code point, an unpaired
\* surrogate is written as U+FFFD
RECURSIVE BufferFromUtf8(_)
BufferFromUtf8(str) ==
  IF Len(str) = 0 THEN << >>
  ELSE LET u == Head(str)
       IN  IF IsHighSurrogate(u) /\ Len(str) > 1 /\ IsLowSurrogate(str[2])
             THEN Utf8Bytes(65536 + (u - 55296) * 1024 + (str[2] - 56320))
                    \o BufferFromUtf8(Tail(Tail(str)))
           ELSE IF IsHighSurrogate(u) \/ IsLowSurrogate(u)
             THEN << 239, 191, 189 >> \o BufferFromUtf8(Tail(str))
           ELSE Utf8Bytes(u) \o BufferFromUtf8(Tail(str))

Base64Alphabet ==
  << "A", "B", "C", "D", "E", "F", "G", "H", "I", "J", "K", "L", "M",
     "N", "O", "P", "Q", "R", "S", "T", "U", "V", "W", "X", "Y", "Z",
     "a", "b", "c", "d", "e", "f", "g", "h", "i", "j", "k", "l", "m",
     "n", "o", "p", "q", "r", "s", "t", "u", "v", "w", "x", "y", "z",
     "0", "1", "2", "3", "4", "5", "6", "7", "8", "9", "+", "/" >>

Base64Char(sextet) == Base64Alphabet[sextet + 1]

\* buffer.toString('base64'): three bytes give four characters, a last group
\* of one or two bytes is padded with "="
RECURSIVE ToStringBase64(_)
ToStringBase64(bytes) ==
  IF Len(bytes) = 0 THEN << >>
  ELSE IF Len(bytes) = 1
    THEN << Base64Char(bytes[1] \div 4), Base64Char((bytes[1] % 4) * 16),
            "=", "=" >>
  ELSE IF Len(bytes) = 2
    THEN << Base64Char(bytes[1] \div 4),
            Base64Char((bytes[1] % 4) * 16 + bytes[2] \div 16),
            Base64Char((bytes[2] % 16) * 4), "=" >>
  ELSE << Base64Char(bytes[1] \div 4),
          Base64Char((bytes[1] % 4) * 16 + bytes[2] \div 16),
          Base64Char((bytes[2] % 16) * 4 + bytes[3] \div 64),
          Base64Char(bytes[3] % 64) >>
         \o ToStringBase64(SubSeq(bytes, 4, Len(bytes)))

\* the characters of base64 text that carry data: decoding ends at the first
\* "=", and a character outside the alphabet is skipped
RECURSIVE Base64Sextets(_)
Base64Sextets(str) ==
  IF Len(str) = 0 \/ Head(str) = "=" THEN << >>
  ELSE IF \E i \in DOMAIN Base64Alphabet : Base64Alphabet[i] = Head(str)
    THEN << (CHOOSE i \in DOMAIN Base64Alphabet : Base64Alphabet[i] = Head(str)) - 1 >>
           \o Base64Sextets(Tail(str))
  ELSE Base64Sextets(Tail(str))

RECURSIVE SextetsToBytes(_)
SextetsToBytes(s) ==
  IF Len(s) < 2 THEN << >>
  ELSE IF Len(s) = 2 THEN << s[1] * 4 + s[2] \div 16 >>
  ELSE IF Len(s) = 3
    THEN << s[1] * 4 + s[2] \div 16, (s[2] % 16) * 16 + s[3] \div 4 >>
  ELSE << s[1] * 4 + s[2] \div 16, (s[2] % 16) * 16 + s[3] \div 4,
          (s[3] % 4) * 64 + s[4] >>
         \o SextetsToBytes(SubSeq(s, 5, Len(s)))

\* Buffer.from(str, 'base64')
BufferFromBase64(str) == SextetsToBytes(Base64Sextets(str))

IsContinuation(bytes, i) ==
  i <= Len(bytes) /\ bytes[i] >= 128 /\ bytes[i] < 192

\* the code units of one decoded code point
CodeUnits(cp) ==
  IF cp < 65536 THEN << cp >>
  ELSE << 55296 + (cp - 65536) \div 1024, 56320 + ((cp - 65536) % 1024) >>

\* buffer.toString('utf-8'): a byte that does not start a well-formed
\* sequence is read as U+FFFD
RECURSIVE ToStringUtf8(_)
ToStringUtf8(bytes) ==
  IF Len(bytes) = 0 THEN << >>
  ELSE LET b   == Head(bytes)
           cp2 == (b - 192) * 64 + (bytes[2] - 128)
           cp3 == (b - 224) * 4096 + (bytes[2] - 128) * 64 + (bytes[3] - 128)
           cp4 == (b - 240) * 262144 + (bytes[2] - 128) * 4096
                    + (bytes[3] - 128) * 64 + (bytes[4] - 128)
           rest(n) == ToStringUtf8(SubSeq(bytes, n + 1, Len(bytes)))
       IN  IF b < 128 THEN << b >> \o rest(1)
           ELSE IF b >= 194 /\ b < 224 /\ IsContinuation(bytes, 2)
             THEN << cp2 >> \o rest(2)
           ELSE IF /\ b >= 224 /\ b < 240
                   /\ IsContinuation(bytes, 2) /\ IsContinuation(bytes, 3)
                   /\ cp3 >= 2048
                   /\ ~IsHighSurrogate(cp3) /\ ~IsLowSurrogate(cp3)
             THEN << cp3 >> \o rest(3)
           ELSE IF /\ b >= 240 /\ b < 245
                   /\ IsContinuation(bytes, 2) /\ IsContinuation(bytes, 3)
                   /\ IsContinuation(bytes, 4)
                   /\ cp4 >= 65536 /\ cp4 <= 1114111
             THEN CodeUnits(cp4) \o rest(4)
           ELSE << 65533 >> \o rest(1)

\* decodeBase64 with the bytes read one character per byte, as
\* toString('latin1') reads them
decodeBase64Text_Latin1(str) == BufferFromBase64(str)

\* MessageParser.decodeBase64 on base64 text given character by character;
\* neither Buffer call throws for a string, so the catch branch is never
\* taken
decodeBase64Text(str) == ToStringUtf8(BufferFromBase64(str))

-----------------------------------------------------------------------------
(* TendermintWSClient: connect, the socket listeners, handleReconnect,     *)
(* subscribe, disconnect                                                   *)
(*                                                                         *)
(* A connect() call is a record: the files loadFilters has not read yet,   *)
(* the map it started from, whether the load threw, the state of the       *)
(* returned promise, and the socket the call creates: its stage            *)
(* ("loading" while a readFile is awaited, "loaded" when the load has      *)
(* settled and the continuation of connect is the next job, then           *)
(* "connecting", "open", "closing", "closed", or "aborting" after close()  *)
(* on a connecting socket), the requests sent on it, whether it was ever   *)
(* open, whether disconnect() closed it, whether it delivered a message.   *)

subscriptionQuery == << "tm.event='Tx'" >>

\* lines 334-339, with the id left out
subscribeMsg == [jsonrpc |-> "2.0", method |-> "subscribe",
                 params |-> << subscriptionQuery >>]

\* the first lines of connect up to the first await inside loadFilters
NewCall(by, files, filters) ==
  [by         |-> by,
   stage      |-> IF Len(files) = 0 THEN "loaded" ELSE "loading",
   rest       |-> files,
   before     |-> filters,
   loadFailed |-> FALSE,
   promise    |-> "pending",
   opened     |-> FALSE,
   sent       |-> << >>,
   userClosed |-> FALSE,
   received   |-> FALSE]

\* faulty variant: the branch for a client without socket is always taken
subscribe_NotInitialized(cs, target) == cs

\* TendermintWSClient.subscribe on the call list cs with this.ws = target:
\* ws.send puts the request on an open socket and drops it on a socket that
\* is closing or closed
subscribe(cs, target) ==
  IF target = 0 THEN cs
  ELSE IF cs[target].stage = "open"
    THEN [cs EXCEPT ![target].sent = Append(@, subscribeMsg)]
  ELSE cs

\* ws.send throws on a socket that is still connecting
SendThrows(cs, target) ==
  target # 0 /\ cs[target].stage \in { "connecting", "aborting" }

\* faulty variant: the test admits one attempt more
handleReconnect_OneMore(attempts, max) ==
  IF attempts <= max
  THEN [attempts |-> attempts + 1, scheduled |-> 1,
        emitted  |-> << [type |-> "reconnecting", attempt |-> attempts + 1,
                         max |-> max] >>]
  ELSE [attempts |-> attempts, scheduled |-> 0, emitted |-> << >>]

\* TendermintWSClient.handleReconnect: the new counter, the timeouts it sets,
\* the events it emits
handleReconnect(attempts, max) ==
  IF attempts < max
  THEN [attempts |-> attempts + 1, scheduled |-> 1,
        emitted  |-> << [type |-> "reconnecting", attempt |-> attempts + 1,
                         max |-> max] >>]
  ELSE [attempts |-> attempts, scheduled |-> 0, emitted |-> << >>]

\* a job that runs before every timer and socket event: the continuation of
\* a connect whose loadFilters has settled
ContinuationPending == \E c \in DOMAIN calls : calls[c].stage = "loaded"

-----------------------------------------------------------------------------
(* Input universes of the advanced filter engine                           *)

EmptyMap == [k \in {} |-> << >>]

Memo   == << "memo" >>
Action == << "action" >>

vHello      == << "hello" >>
vWorld      == << "world" >>
vHelloWorld == << "hello", "world" >>

ActDelegate == << "/", "cosmos", ".", "staking", ".", "v1beta1", ".", "MsgDelegate" >>
ActWithdraw == << "/", "cosmos", ".", "distribution", ".", "v1beta1", ".",
                  "MsgWithdrawDelegatorReward" >>
ActIbc      == << "/", "ibc", ".", "applications", ".", "transfer", ".", "v1", ".",
                  "MsgTransfer" >>
ActWasm     == << "/", "cosm", "wasm", ".", "wasm", ".", "v1", ".", "MsgExecuteContract" >>
ActSend     == << "/", "cosmos", ".", "bank", ".", "v1beta1", ".", "MsgSend" >>

TMessage  == << "message" >>
TTransfer == << "transfer" >>

\* the events and conditions matchesCondition is applied to
CondAttributes ==
  { EmptyMap,
    Memo :> << vHello >>,
    Memo :> << vHelloWorld, vWorld >>,
    Memo :> << << >> >>,
    Action :> << vHello >> }

CondEvents == { [type |-> TMessage, attributes |-> a] : a \in CondAttributes }

CondValues ==
  { U, Str(vHello), Str(vWorld), Str(<< "^", "hello" >>), Str(<< "world", "$" >>),
    Str(<< "(" >>), Str(<< "hello", "(" >>),
    Arr(<< vHello, << "(" >> >>), Arr(<< >>) }

MatchTypes == { "exact", "contains", "startsWith", "endsWith", "regex", "undefined" }

Conditions ==
  [key : {Memo, << "fee" >>}, value : CondValues, matchType : MatchTypes,
   negated : BOOLEAN]

Cond(key, value, matchType, negated) ==
  [key |-> key, value |-> value, matchType |-> matchType, negated |-> negated]

NoRange == [kind |-> "undefined", field |-> "height",
            hasMin |-> FALSE, min |-> 0, hasMax |-> FALSE, max |-> 0]

Filter(name, eventType, anyOf, allOf, noneOf, messageType, or, and, txHash, range) ==
  [name |-> name, eventType |-> eventType, anyOf |-> anyOf, allOf |-> allOf,
   noneOf |-> noneOf, messageType |-> messageType, or |-> or, and |-> and,
   txHash |-> txHash, range |-> range]

\* events of the transactions matchesFilter is applied to
A1 == << "osmo1", "aaa" >>
A2 == << "osmo1", "bbb" >>
A3 == << "osmo1", "ccc" >>

evDelegate == [type |-> TMessage,
               attributes |-> Action :> << ActDelegate >> @@ Memo :> << vHello >>]
evWasm     == [type |-> TMessage,
               attributes |-> Action :> << ActWasm >> @@ Memo :> << vWorld >>]
evTransfer == [type |-> TTransfer,
               attributes |-> << "sender" >> :> << A1 >> @@ Memo :> << vWorld >>]
evBare     == [type |-> TTransfer, attributes |-> EmptyMap]

H1 == << "H1" >>
H2 == << "H2" >>
H3 == << "H3" >>

\* the longest event list of an input transaction
MaxTxEvents == 2

SeqsUpTo(S, n) == UNION { [1..k -> S] : k \in 0..n }

Tx(txhash, height, gasUsed, decodedEvents) ==
  [txhash |-> txhash, height |-> height, gasWanted |-> << "0" >>,
   gasUsed |-> gasUsed, decodedEvents |-> decodedEvents]

cMemoHello == Cond(Memo, Str(vHello), "exact", FALSE)
cMemoWorld == Cond(Memo, Str(vWorld), "exact", FALSE)
cHasAction == Cond(Action, U, "undefined", FALSE)
cNoMemo    == Cond(Memo, U, "undefined", TRUE)
cBadRegex  == Cond(Memo, Str(<< "(" >>), "regex", FALSE)

\* filters without txHash, range or sub-filters, on transactions of up to
\* MaxTxEvents events
FlatFilters ==
  { Filter(Undefined, et, any, all, none, mt, << >>, << >>, U, NoRange) :
      et   \in { U, Str(TMessage), Arr(<< TTransfer, TMessage >>),
                 Str(<< "nosuch" >>), Arr(<< >>) },
      any  \in { << >>, << cMemoHello >>, << cBadRegex, cMemoWorld >> },
      all  \in { << >>, << cMemoHello, cMemoWorld >>, << cHasAction >> },
      none \in { << >>, << cMemoWorld >>, << cNoMemo >> },
      mt   \in { U, Str(<< "MsgDelegate" >>) } }

FlatTxs ==
  { Tx(H1, << "5" >>, << "0" >>, evs) :
      evs \in SeqsUpTo({evDelegate, evWasm, evTransfer, evBare}, MaxTxEvents) }

Flat(eventType, anyOf) ==
  Filter(Undefined, eventType, anyOf, << >>, << >>, U, << >>, << >>, U, NoRange)

fMsg     == Flat(Str(TMessage), << >>)
fNever   == Flat(Str(<< "nosuch" >>), << >>)
fHello   == Flat(U, << cMemoHello >>)
fHash    == [Flat(U, << >>) EXCEPT !.txHash = Str(H1)]
fDeepOr  == [Flat(U, << >>) EXCEPT !.or = << fNever, fHello >>]
fDeepAnd == [Flat(U, << >>) EXCEPT !.and = << fMsg, fHello >>]

Range(field, hasMin, min, hasMax, max) ==
  [kind |-> "range", field |-> field, hasMin |-> hasMin, min |-> min,
   hasMax |-> hasMax, max |-> max]

\* filters with txHash, range and nested or / and lists (up to three levels)
NestedFilters ==
  { Filter(Undefined, U, any, << >>, << >>, U, or, and, th, rg) :
      any \in { << >>, << cMemoHello >> },
      or  \in { << >>, << fNever, fHello >>, << fNever >>, << fDeepOr, fNever >> },
      and \in { << >>, << fMsg, fHello >>, << fDeepAnd >>, << fMsg, fHash >> },
      th  \in { U, Str(H1), Arr(<< H1, H2 >>) },
      rg  \in { NoRange, Range("height", TRUE, 5, TRUE, 7),
                Range("height", TRUE, 7, FALSE, 0),
                Range("gasUsed", FALSE, 0, TRUE, 5),
                Range("nosuch", FALSE, 0, FALSE, 0) } }

NestedTxs ==
  { Tx(h, ht, gu, evs) :
      h   \in { H1, H3, Undefined },
      ht  \in { << "5" >>, << "100" >>, << "abc" >>, Undefined },
      gu  \in { << "0" >>, << "7" >> },
      evs \in { << >>, << evDelegate >>, << evWasm >> } }

\* filters that name an event type no transaction has and whose sub-filters
\* match on their own
NoCandidateFilters ==
  { [Flat(Str(<< "nosuch" >>), << >>) EXCEPT !.or = or, !.and = and] :
      or  \in { << >>, << fNever, fHello >> },
      and \in { << >>, << fMsg, fHello >> } }

MatchInputs ==
  [tx : FlatTxs, filter : FlatFilters] \cup [tx : NestedTxs, filter : NestedFilters]
    \cup [tx : NestedTxs, filter : NoCandidateFilters]

-----------------------------------------------------------------------------
(* State of the components that a specification leaves alone               *)

NoCall == [called |-> FALSE]

IdleCond ==
  /\ condIn = [event |-> evBare, condition |-> cMemoHello]
  /\ condOut = [called |-> FALSE, result |-> FALSE]

IdleMatch ==
  /\ mfIn = [tx |-> Tx(Undefined, Undefined, << "0" >>, << >>), filter |-> fMsg]
  /\ mfOut = [called |-> FALSE, exit |-> "none"]

IdleEngine ==
  /\ advFilters = << >>
  /\ advOut = NoCall
  /\ anyOut = NoCall

IdleFilterManager ==
  /\ walletAddresses = << >>
  /\ wasmContractFilter = [kind |-> "null"]
  /\ eventFilters = << >>
  /\ jsonFilters = EmptyMap
  /\ filterFiles = << >>
  /\ loadPending = [state |-> "idle", rest |-> << >>]
  /\ fmIn = Tx(Undefined, Undefined, << "0" >>, << >>)
  /\ fmOut = NoCall

IdleClient ==
  /\ excludeUnwantedEvents = TRUE
  /\ lastMessage = [handled |-> FALSE]
  /\ emitted = << >>
  /\ firstHandled = [handled |-> FALSE]

IdleConn ==
  /\ maxReconnectAttempts = 0
  /\ reconnectAttempts = 0
  /\ connected = FALSE
  /\ ws = 0
  /\ calls = << >>
  /\ timers = 0
  /\ connEmitted = << >>

IdleParser ==
  /\ parseIn = [fn |-> "none"]
  /\ parseOut = NoCall

-----------------------------------------------------------------------------
(* SpecCond: matchesCondition applied to one event and one condition       *)

InitCond ==
  /\ condIn \in [event : CondEvents, condition : Conditions]
  /\ condOut = [called |-> FALSE, result |-> FALSE]
  /\ IdleMatch /\ IdleEngine /\ IdleFilterManager /\ IdleClient /\ IdleParser
  /\ IdleConn

CallMatchesCondition ==
  /\ ~condOut.called
  /\ condOut' = [called |-> TRUE,
                 result |-> matchesCondition(condIn.event, condIn.condition)]
  /\ UNCHANGED << condIn, matchVars, engineVars, fmVars, clientVars, parserVars,
                  connVars >>

NextCond == CallMatchesCondition

SpecCond == InitCond /\ [][NextCond]_vars

-----------------------------------------------------------------------------
(* SpecMatch: matchesFilter applied to one transaction and one filter      *)

InitMatch ==
  /\ mfIn \in MatchInputs
  /\ mfOut = [called |-> FALSE, exit |-> "none"]
  /\ IdleCond /\ IdleEngine /\ IdleFilterManager /\ IdleClient /\ IdleParser
  /\ IdleConn

CallMatchesFilter ==
  /\ ~mfOut.called
  /\ mfOut' = [called |-> TRUE, exit |-> matchesFilterExit(mfIn.tx, mfIn.filter)]
  /\ UNCHANGED << mfIn, condVars, engineVars, fmVars, clientVars, parserVars,
                  connVars >>

NextMatch == CallMatchesFilter

SpecMatch == InitMatch /\ [][NextMatch]_vars

-----------------------------------------------------------------------------
(* SpecEngine: an AdvancedFilterEngine under addFilter, clearFilters,      *)
(* applyFilters and matchesAnyFilter.  advOut and anyOut hold the last     *)
(* call of each query on the current filter list; a change of the list     *)
(* forgets them.                                                           *)

\* the longest list of registered filters
MaxFilters == 2

gWasm    == [Flat(Str(TMessage), << >>) EXCEPT
               !.name = << "wasm-calls" >>, !.messageType = Str(<< "wasm" >>)]
gHello   == Flat(U, << cMemoHello >>)
gEmpty   == [Flat(Str(TMessage), << >>) EXCEPT !.name = << >>]
gNever   == [fNever EXCEPT !.name = << "never" >>]

EngineFilters == { gWasm, gHello, gEmpty, gNever }

EngineTxs ==
  { Tx(H1, << "5" >>, << "0" >>, evs) :
      evs \in { << >>, << evDelegate >>, << evWasm >>, << evTransfer >>,
                << evWasm, evDelegate >> } }

InitEngine ==
  /\ advFilters \in { << >>, << gWasm >> }
  /\ advOut = NoCall
  /\ anyOut = NoCall
  /\ IdleCond /\ IdleMatch /\ IdleFilterManager /\ IdleClient /\ IdleParser
  /\ IdleConn

\* AdvancedFilterEngine.addFilter
AddFilter ==
  \E f \in EngineFilters :
    /\ Len(advFilters) < MaxFilters
    /\ advFilters' = Append(advFilters, f)
    /\ advOut' = NoCall
    /\ anyOut' = NoCall
    /\ UNCHANGED << condVars, matchVars, fmVars, clientVars, parserVars,
                  connVars >>

\* AdvancedFilterEngine.clearFilters
ClearFilters ==
  /\ advFilters' = << >>
  /\ advOut' = NoCall
  /\ anyOut' = NoCall
  /\ UNCHANGED << condVars, matchVars, fmVars, clientVars, parserVars,
                  connVars >>

CallApplyFilters ==
  \E tx \in EngineTxs :
    /\ advOut' = [called |-> TRUE, tx |-> tx,
                  result |-> engineApplyFilters(advFilters, tx)]
    /\ UNCHANGED << advFilters, anyOut, condVars, matchVars, fmVars, clientVars, parserVars,
                  connVars >>

CallMatchesAnyFilter ==
  \E tx \in EngineTxs :
    /\ anyOut' = [called |-> TRUE, tx |-> tx,
                  result |-> matchesAnyFilter(advFilters, tx)]
    /\ UNCHANGED << advFilters, advOut, condVars, matchVars, fmVars, clientVars, parserVars,
                  connVars >>

NextEngine ==
  \/ AddFilter
  \/ ClearFilters
  \/ CallApplyFilters
  \/ CallMatchesAnyFilter

SpecEngine == InitEngine /\ [][NextEngine]_vars

-----------------------------------------------------------------------------
(* SpecFilters: a FilterManager as constructed from a configuration, its   *)
(* loadFilters running file by file (each readFile is awaited, so other    *)
(* calls interleave), and applyFilters applied to one transaction.         *)

V1 == << "osmovaloper1", "vvv" >>
K1 == << "osmo1", "contract" >>

mDelegate == [type |-> TMessage,
              attributes |-> Action :> << ActDelegate >>
                             @@ << "delegator" >> :> << A1 >>
                             @@ << "validator" >> :> << V1 >>]
mSend     == [type |-> TMessage,
              attributes |-> Action :> << ActSend >>
                             @@ << "sender" >> :> << A1 >>
                             @@ << "recipient" >> :> << A2 >>]
mWasm     == [type |-> TMessage,
              attributes |-> Action :> << ActWasm >>
                             @@ << "contract" >> :> << K1 >>
                             @@ << "sender" >> :> << A2 >>]
mMulti    == [type |-> TMessage,
              attributes |-> Action :> << ActSend, ActIbc >>
                             @@ << "spender" >> :> << A3, A3 >>
                             @@ Memo :> << vHello >>]
tTransfer == [type |-> TTransfer,
              attributes |-> << "sender" >> :> << A1 >>
                             @@ << "receiver" >> :> << A2 >>
                             @@ Memo :> << vHello >>]
wWasm     == [type |-> << "wasm" >>,
              attributes |-> Action :> << ActWasm >>
                             @@ << "sender" >> :> << A1 >>
                             @@ << "contract" >> :> << K1 >>]

FilterTxs ==
  { Tx(H1, << "5" >>, << "0" >>, evs) :
      evs \in SeqsUpTo({mDelegate, mSend, mWasm, mMulti, tTransfer, wWasm},
                       MaxTxEvents) }

Obj(map) == [kind |-> "object", map |-> map]
EventFilter(type, attributes) == [type |-> type, attributes |-> attributes]

rTransfer  == EventFilter(Str(TTransfer), U)
rHello     == EventFilter(Arr(<< TMessage, << "wasm" >> >>), Obj(Memo :> Str(vHello)))
rEmptyObj  == EventFilter(Str(TTransfer), Obj(EmptyMap))
rSender    == EventFilter(U, Obj(<< "sender" >> :> Arr(<< A2, A3 >>)
                                 @@ << "fee" >> :> Str(vWorld)))
rNoType    == EventFilter(Arr(<< >>), U)

WalletConfigs == { << >>, << A1 >>, << A3, A2 >> }
WasmConfigs   == { [kind |-> "null"], Arr(<< >>), Arr(<< K1 >>) }
EventFilterConfigs ==
  { << >>, << rTransfer >>, << rHello >>, << rEmptyObj >>, << rNoType, rSender >> }

File(key, file) == [key |-> key, file |-> file]

FilterFileConfigs ==
  { << >>,
    << File(<< "recipient" >>, Arr(<< A2 >>)) >>,
    << File(<< "receiver" >>, Arr(<< A2 >>)) >>,
    << File(<< "delegator" >>, Arr(<< A1, A3 >>)),
       File(<< "sender" >>, [kind |-> "object"]) >> }

InitFilters ==
  /\ walletAddresses \in WalletConfigs
  /\ wasmContractFilter \in WasmConfigs
  /\ eventFilters \in EventFilterConfigs
  /\ filterFiles \in FilterFileConfigs
  /\ jsonFilters = EmptyMap
  /\ loadPending = [state |-> "idle", rest |-> << >>]
  /\ fmIn \in FilterTxs
  /\ fmOut = NoCall
  /\ IdleCond /\ IdleMatch /\ IdleEngine /\ IdleClient /\ IdleParser
  /\ IdleConn

\* FilterManager.loadFilters is called: it runs up to its first await, or to
\* its end when there is no file
LoadFilters ==
  /\ loadPending.state # "loading"
  /\ loadPending' = [state |-> IF Len(filterFiles) = 0 THEN "done" ELSE "loading",
                     rest  |-> filterFiles]
  /\ UNCHANGED << walletAddresses, wasmContractFilter, eventFilters, jsonFilters,
                  filterFiles, fmIn, fmOut,
                  condVars, matchVars, engineVars, clientVars, parserVars,
                  connVars >>

\* one awaited readFile settles: the list is stored under its key and the
\* loop goes on, or the error is rethrown and loadFilters rejects
LoadFile ==
  /\ loadPending.state = "loading"
  /\ LET entry == Head(loadPending.rest)
     IN  IF FileLoads(entry.file)
         THEN /\ jsonFilters' = FiltersAfterFile(jsonFilters, entry)
              /\ loadPending' =
                   [state |-> IF Len(loadPending.rest) = 1 THEN "done" ELSE "loading",
                    rest  |-> Tail(loadPending.rest)]
         ELSE /\ jsonFilters' = jsonFilters
              /\ loadPending' = [state |-> "failed", rest |-> << >>]
  /\ UNCHANGED << walletAddresses, wasmContractFilter, eventFilters,
                  filterFiles, fmIn, fmOut,
                  condVars, matchVars, engineVars, clientVars, parserVars,
                  connVars >>

\* FilterManager.applyFilters(fmIn)
CallFilterManagerApply ==
  /\ ~fmOut.called
  /\ fmOut' = [called  |-> TRUE,
               filters |-> jsonFilters,
               result  |-> applyFilters(wasmContractFilter, walletAddresses,
                                        jsonFilters, eventFilters, fmIn)]
  /\ UNCHANGED << walletAddresses, wasmContractFilter, eventFilters, jsonFilters,
                  filterFiles, loadPending, fmIn,
                  condVars, matchVars, engineVars, clientVars, parserVars,
                  connVars >>

NextFilters ==
  \/ LoadFilters
  \/ LoadFile
  \/ CallFilterManagerApply

SpecFilters == InitFilters /\ [][NextFilters]_vars

-----------------------------------------------------------------------------
(* SpecClient: a client as constructed from a configuration, filters added *)
(* through addFilter, and handleWebSocketMessage called with one frame     *)
(* after another.                                                          *)

B64(text) == << "b64:" >> \o text

RawAttr(key, value) == [key |-> key, value |-> value, index |-> TRUE]
RawEvent(type, attributes) == [type |-> type, attributes |-> attributes]

FlatMap(entries) == [kind |-> "object", entries |-> entries]
Entry(key, values) == [key |-> key, values |-> values]

TxResultPart(events, hash, gas_wanted, gas_used) ==
  [kind |-> "object", events |-> events, hash |-> hash,
   gas_wanted |-> gas_wanted, gas_used |-> gas_used]
TxResult(hash, height, result, tx_result) ==
  [kind |-> "object", hash |-> hash, height |-> height,
   result |-> result, tx_result |-> tx_result]
\* message.result.data, holding the hash and TxResult of its value
Data(hash, txResult) == [kind |-> "object", hash |-> hash, TxResult |-> txResult]
Result(data, events) == [kind |-> "object", data |-> data, events |-> events]
Message(hasId, result, events) ==
  [hasId |-> hasId, result |-> result, events |-> events]

Frame(message) == [parses |-> TRUE, message |-> message]
BadFrame == [parses |-> FALSE]

xDelegate == RawEvent(TMessage, << RawAttr(Action, ActDelegate),
                                   RawAttr(<< "delegator" >>, A1),
                                   RawAttr(<< "validator" >>, V1) >>)
xWasm     == RawEvent(TMessage, << RawAttr(B64(Action), B64(ActWasm)),
                                   RawAttr(B64(<< "contract" >>), B64(K1)),
                                   RawAttr(B64(<< "sender" >>), B64(A2)) >>)
xTransfer == RawEvent(TTransfer, << RawAttr(<< "sender" >>, A1),
                                    RawAttr(<< "recipient" >>, A2),
                                    RawAttr(<< "sender" >>, A1),
                                    RawAttr(<< "amount" >>, B64(<< "\\x01", "5" >>)) >>)

kVote   == Entry(AggregateVoteKey, << << "1.0uusd" >> >>)
kHash   == Entry(<< "tx", ".", "hash" >>, << H2 >>)
kAction == Entry(<< "message", ".", "action" >>, << ActSend >>)
kSender == Entry(<< "message", ".", "sender" >>, << A1, A3 >>)
kTm     == Entry(<< "tm", ".", "event" >>, << << "Tx" >> >>)
kBare   == Entry(<< "height" >>, << << "5" >> >>)

PlainResult(events) == TxResultPart(Arr(events), Undefined, << "200" >>, << "100" >>)

\* a frame that carries a TxResult with a structured event list
TxFrame(events, flatResult, flatRoot) ==
  Frame(Message(FALSE,
                Result(Data(Undefined,
                            TxResult(H1, << "5" >>, PlainResult(events), U)),
                       flatResult),
                flatRoot))

Frames ==
  { BadFrame,
    \* the reply to a subscribe request, with and without its id
    Frame(Message(TRUE, Result(U, U), U)),
    Frame(Message(FALSE, Result(U, U), U)),
    \* an error reply, and a frame with neither result nor events
    Frame(Message(TRUE, U, U)),
    Frame(Message(FALSE, U, U)),
    \* a reply whose root events carry the oracle vote
    Frame(Message(TRUE, Result(U, U), FlatMap(<< kTm, kVote >>))),
    \* a NewBlock-like event: data without TxResult
    Frame(Message(FALSE, Result(Data(Undefined, U), FlatMap(<< kTm >>)), U)),
    Frame(Message(FALSE, Result(Data(Undefined, U), FlatMap(<< kVote >>)), U)),
    Frame(Message(FALSE, Result(U, FlatMap(<< kTm >>)), U)),
    \* transactions with a structured event list
    TxFrame(<< xDelegate >>, U, U),
    TxFrame(<< xWasm >>, FlatMap(<< kTm, kHash >>), U),
    TxFrame(<< xTransfer, xDelegate >>, U, U),
    TxFrame(<< xWasm, xDelegate >>, U, U),
    TxFrame(<< xTransfer >>, FlatMap(<< kVote, kTm >>), U),
    TxFrame(<< xDelegate >>, U, FlatMap(<< kVote >>)),
    \* transactions whose events come from tx_result or from a flat map
    Frame(Message(FALSE,
                  Result(Data(H3, TxResult(Undefined, << "6" >>, U,
                                           TxResultPart(Arr(<< xWasm >>), Undefined,
                                                        Undefined, << "7" >>))),
                         U),
                  U)),
    Frame(Message(FALSE,
                  Result(Data(Undefined,
                              TxResult(Undefined, Undefined,
                                       TxResultPart(U, Undefined, Undefined, Undefined),
                                       TxResultPart(U, H3, Undefined, Undefined))),
                         FlatMap(<< kHash, kAction, kBare, kSender >>)),
                  U)),
    Frame(Message(FALSE,
                  Result(Data(Undefined, TxResult(Undefined, << "5" >>,
                                                  PlainResult(<< >>), U)),
                         FlatMap(<< kAction >>)),
                  FlatMap(<< kHash, kSender, kVote, kAction >>))),
    Frame(Message(FALSE,
                  Result(Data(Undefined, TxResult(Undefined, << "5" >>, U, U)), U),
                  U)) }

ClientWallets      == { << >>, << A1 >> }
ClientWasm         == { [kind |-> "null"], Arr(<< K1 >>) }
ClientEventFilters == { << >>, << rTransfer >> }

InitClient ==
  /\ excludeUnwantedEvents \in BOOLEAN
  /\ lastMessage = [handled |-> FALSE]
  /\ emitted = << >>
  /\ firstHandled = [handled |-> FALSE]
  /\ walletAddresses \in ClientWallets
  /\ wasmContractFilter \in ClientWasm
  /\ eventFilters \in ClientEventFilters
  /\ jsonFilters = EmptyMap
  /\ filterFiles = << >>
  /\ loadPending = [state |-> "idle", rest |-> << >>]
  /\ fmIn = Tx(Undefined, Undefined, << "0" >>, << >>)
  /\ fmOut = NoCall
  /\ IdleCond /\ IdleMatch /\ IdleEngine /\ IdleParser
  /\ IdleConn

\* TendermintWSClient.handleWebSocketMessage(data)
\* TendermintWSClient.handleWebSocketMessage(data)
HandleWebSocketMessage ==
  \E data \in Frames :
    /\ lastMessage' = [handled |-> TRUE, data |-> data]
    /\ emitted' = HandlerEmits(excludeUnwantedEvents, wasmContractFilter,
                               walletAddresses, jsonFilters, eventFilters,
                               advFilters, data)
    /\ UNCHANGED << excludeUnwantedEvents, firstHandled, condVars, matchVars,
                    engineVars, fmVars, parserVars, connVars >>

NextClient ==
  \/ HandleWebSocketMessage
  \/ AddFilter

SpecClient == InitClient /\ [][NextClient]_vars

-----------------------------------------------------------------------------
(* SpecSession: one client with a fixed configuration, its socket          *)
(* delivering one frame after another to handleWebSocketMessage.  An       *)
(* observer keeps the data and the events of the first call in             *)
(* firstHandled.                                                           *)

InitSession ==
  /\ excludeUnwantedEvents \in BOOLEAN
  /\ lastMessage = [handled |-> FALSE]
  /\ emitted = << >>
  /\ firstHandled = [handled |-> FALSE]
  /\ walletAddresses \in ClientWallets
  /\ wasmContractFilter \in ClientWasm
  /\ eventFilters \in ClientEventFilters
  /\ jsonFilters = EmptyMap
  /\ filterFiles = << >>
  /\ loadPending = [state |-> "idle", rest |-> << >>]
  /\ fmIn = Tx(Undefined, Undefined, << "0" >>, << >>)
  /\ fmOut = NoCall
  /\ advFilters \in { << >>, << gNever >> }
  /\ advOut = NoCall
  /\ anyOut = NoCall
  /\ IdleCond /\ IdleMatch /\ IdleParser /\ IdleConn

\* the ws 'message' listener: this.handleWebSocketMessage(data)
OnMessage ==
  \E data \in Frames :
    /\ lastMessage' = [handled |-> TRUE, data |-> data]
    /\ emitted' = HandlerEmits(excludeUnwantedEvents, wasmContractFilter,
                               walletAddresses, jsonFilters, eventFilters,
                               advFilters, data)
    /\ firstHandled' =
         IF firstHandled.handled
         THEN [firstHandled EXCEPT !.others = @ \/ data # firstHandled.data]
         ELSE [handled |-> TRUE, data |-> data, emitted |-> emitted',
               others |-> FALSE]
    /\ UNCHANGED << excludeUnwantedEvents, condVars, matchVars, engineVars, fmVars,
                    parserVars, connVars >>

NextSession == OnMessage

SpecSession == InitSession /\ [][NextSession]_vars

-----------------------------------------------------------------------------
(* SpecParser: one call of a MessageParser function on one argument        *)

MaxParserEvents == 3

V2 == << "osmovaloper1", "www" >>

aOsmo   == << "5", "uosmo" >>
aDigits == << "1", "0", "0" >>
aDenom  == << "uosmo" >>

ActUndelegate == << "/", "cosmos", ".", "staking", ".", "v1beta1", ".", "MsgUndelegate" >>
ActRedelegate == << "/", "cosmos", ".", "staking", ".", "v1beta1", ".",
                    "MsgBeginRedelegate" >>

\* a raw event with plain keys and values, from (key, value) pairs
Plain(type, pairs) ==
  RawEvent(type, [i \in DOMAIN pairs |-> RawAttr(pairs[i][1], pairs[i][2])])

StakingRawEvents ==
  { Plain(<< "withdraw_rewards" >>, << << << "delegator" >>, A1 >>,
                                      << << "validator" >>, V1 >>,
                                      << << "amount" >>, aOsmo >> >>),
    Plain(<< "withdraw_rewards" >>, << << << "sender" >>, A1 >>,
                                      << << "validator" >>, V1 >> >>),
    Plain(<< "delegate" >>, << << << "delegator" >>, A1 >>,
                              << << "validator" >>, V1 >>,
                              << << "amount" >>, aDigits >> >>),
    Plain(<< "delegate" >>, << << << "sender" >>, A2 >>,
                              << << "validator" >>, V2 >>,
                              << << "amount" >>, aDenom >> >>),
    Plain(<< "delegate" >>, << << << "delegator" >>, A1 >> >>),
    Plain(<< "unbond" >>, << << << "delegator" >>, A3 >>,
                            << << "validator" >>, V1 >> >>),
    Plain(<< "unbond" >>, << << << "validator" >>, V1 >>,
                            << << "amount" >>, aOsmo >> >>),
    Plain(<< "redelegate" >>, << << << "delegator" >>, A1 >>,
                                << << "source_validator" >>, V1 >>,
                                << << "destination_validator" >>, V2 >>,
                                << << "amount" >>, aOsmo >> >>),
    Plain(<< "redelegate" >>, << << << "sender" >>, A2 >>,
                                << << "source_validator" >>, V1 >> >>),
    Plain(<< "redelegate" >>, << << << "delegator" >>, A1 >> >>),
    Plain(TMessage, << << Action, ActDelegate >>,
                       << << "delegator" >>, A1 >>,
                       << << "validator" >>, V1 >>,
                       << << "amount" >>, aOsmo >> >>),
    Plain(TMessage, << << Action, ActUndelegate >>,
                       << << "delegator" >>, A2 >>,
                       << << "validator" >>, V1 >> >>),
    Plain(TMessage, << << Action, ActRedelegate >>,
                       << << "delegator" >>, A3 >>,
                       << << "destination_validator" >>, V2 >> >>),
    Plain(TMessage, << << Action, ActWithdraw >>,
                       << << "delegator" >>, A1 >>,
                       << << "validator" >>, V1 >> >>),
    Plain(TTransfer, << << << "sender" >>, A1 >>,
                        << << "recipient" >>, A2 >>,
                        << << "amount" >>, aOsmo >> >>) }

Channel0 == << "channel-", "0" >>

IBCRawEvents ==
  { Plain(<< "send_packet" >>, << << << "packet_src_port" >>, TTransfer >>,
                                 << << "packet_src_channel" >>, Channel0 >>,
                                 << << "packet_dst_port" >>, TTransfer >>,
                                 << << "packet_dst_channel" >>, << "channel-", "1" >> >> >>),
    Plain(<< "send_packet" >>, << << << "packet_src_port" >>, << "icahost" >> >>,
                                 << << "packet_src_channel" >>, Channel0 >> >>),
    Plain(TTransfer, << << << "sender" >>, A1 >>,
                        << << "recipient" >>, A2 >>,
                        << << "amount" >>, aOsmo >> >>),
    Plain(TTransfer, << << << "sender" >>, A2 >>,
                        << << "recipient" >>, A3 >>,
                        << << "amount" >>, << "7" >> >> >>),
    Plain(TTransfer, << << << "sender" >>, A1 >>,
                        << << "recipient" >>, A2 >> >>),
    Plain(TMessage, << << Action, ActIbc >>, << << "sender" >>, A1 >> >>) }

ActSwap == << "/", "osmosis", ".", "gamm", ".", "v1beta1", ".", "MsgSwap", "ExactAmountIn" >>
ActVote == << "/", "cosmos", ".", "gov", ".", "v1beta1", ".", "MsgVote" >>
ActDeposit == << "/", "cosmos", ".", "gov", ".", "v1beta1", ".", "MsgDeposit" >>

TokenSwapped ==
  Plain(<< "token_swapped" >>, << << << "pool_id" >>, << "1" >> >>,
                                 << << "tokens_in" >>, aOsmo >>,
                                 << << "tokens_out" >>, << "7", "ibc", "/", "2", "7" >> >>,
                                 << << "sender" >>, A1 >> >>)

ClassifiedRawEvents ==
  { Plain(TMessage, << << Action, ActSwap >> >>),
    Plain(TMessage, << << Action, ActDelegate >>, << << "delegator" >>, A1 >>,
                       << << "validator" >>, V1 >> >>),
    Plain(TMessage, << << Action, ActUndelegate >>, << Action, ActRedelegate >> >>),
    Plain(TMessage, << << Action, ActWithdraw >> >>),
    Plain(TMessage, << << Action, ActVote >> >>),
    Plain(TMessage, << << Action, ActDeposit >>, << Action, ActVote >> >>),
    Plain(TMessage, << << Action, ActSend >> >>),
    TokenSwapped,
    Plain(<< "token_swapped" >>, << << << "pool_id" >>, << "1" >> >> >>),
    Plain(<< "withdraw_rewards" >>, << << << "delegator" >>, A1 >>,
                                      << << "validator" >>, V1 >> >>),
    Plain(<< "unbond" >>, << << << "delegator" >>, A3 >>,
                            << << "validator" >>, V1 >> >>),
    Plain(<< "send_packet" >>, << << << "packet_src_port" >>, TTransfer >>,
                                 << << "packet_src_channel" >>, Channel0 >> >>),
    Plain(TTransfer, << << << "sender" >>, A1 >>,
                        << << "recipient" >>, A2 >>,
                        << << "amount" >>, aOsmo >> >>),
    Plain(<< "withdraw_position" >>, << << << "sender" >>, A1 >> >>) }

\* the decoded event lists built from a set of raw events
DecodedLists(rawEvents) ==
  { decodeEvents(events) : events \in SeqsUpTo(rawEvents, MaxParserEvents) }

ParserCalls ==
  { [fn |-> "extractStakingDetails", events |-> events] :
      events \in DecodedLists(StakingRawEvents) }
  \cup
  { [fn |-> "extractIBCDetails", events |-> events] :
      events \in DecodedLists(IBCRawEvents) }

EnhancedCalls ==
  { [fn |-> "processEnhancedTxMessage", message |-> TxFrame(events, U, U).message] :
      events \in SeqsUpTo(ClassifiedRawEvents, MaxParserEvents) }
  \cup
  { [fn |-> "processEnhancedTxMessage", message |-> Message(TRUE, Result(U, U), U)] }

fTransfer == FlatMap(<< Entry(<< "transfer", ".", "sender" >>, << A1 >>),
                        Entry(<< "transfer", ".", "amount" >>, << aOsmo >>) >>)
fMixed    == FlatMap(<< kAction,
                        Entry(<< "transfer", ".", "sender" >>, << A1, A3 >>),
                        kBare, kSender, kHash,
                        Entry(<< "transfer", ".", "packet", ".", "data" >>, << vHello >>),
                        Entry(<< ".", "odd" >>, << vWorld >>) >>)
fUndotted == FlatMap(<< kBare >>)
fTm       == FlatMap(<< kTm, kHash >>)

\* the result and tx_result parts of a TxResult, by their event lists
StructuredParts ==
  { << U, U >>,
    << TxResultPart(U, Undefined, Undefined, Undefined), U >>,
    << PlainResult(<< >>), U >>,
    << PlainResult(<< xDelegate >>), U >>,
    << U, TxResultPart(Arr(<< xWasm, xTransfer >>), H3, << "7" >>, Undefined) >>,
    << PlainResult(<< >>), TxResultPart(Arr(<< xWasm >>), H3, << "7" >>, Undefined) >> }

ExtractCalls ==
  { [fn |-> "extractTxResult",
     message |-> Message(FALSE,
                         Result(Data(Undefined,
                                     TxResult(Undefined, << "5" >>, parts[1], parts[2])),
                                flatResult),
                         flatRoot)] :
      parts \in StructuredParts,
      flatResult \in { U, fTransfer, fTm },
      flatRoot \in { U, fTransfer, fMixed, fUndotted } }
  \cup
  { [fn |-> "extractTxResult", message |-> Message(TRUE, Result(U, fTransfer), U)] }

xMixed == RawEvent(<< "wasm" >>, << RawAttr(B64(<< "sender" >>), B64(A1)),
                                   RawAttr(<< "sender" >>, A2),
                                   RawAttr(B64(Memo), B64(vHello)),
                                   RawAttr(Memo, vHello),
                                   RawAttr(B64(<< "sender" >>), B64(A1)) >>)
xEmpty == RawEvent(TMessage, << >>)

\* addresses of other chains, plain and encoded, under address-bearing keys
S1 == << "sei1", "aaa" >>
C1 == << "cosmos1", "bbb" >>

xSei    == RawEvent(TMessage, << RawAttr(Action, ActSend),
                                 RawAttr(<< "sender" >>, B64(S1)),
                                 RawAttr(<< "recipient" >>, S1) >>)
xCosmos == RawEvent(TMessage, << RawAttr(B64(<< "delegator" >>), B64(C1)),
                                 RawAttr(<< "validator" >>, C1) >>)

DecodeCalls ==
  { [fn |-> "decodeEvents", events |-> events] :
      events \in SeqsUpTo({ xDelegate, xWasm, xTransfer, xMixed, xEmpty, xSei, xCosmos },
                          MaxParserEvents) }

\* events of bank and IBC transfers: a value repeated within one event and
\* across events, one address under several attribute names, keys that no
\* set collects
tSend     == RawEvent(TTransfer, << RawAttr(<< "sender" >>, A1),
                                    RawAttr(<< "recipient" >>, A2),
                                    RawAttr(<< "amount" >>, aOsmo),
                                    RawAttr(<< "sender" >>, A1) >>)
tSpent    == RawEvent(<< "coin_spent" >>, << RawAttr(<< "spender" >>, A1),
                                             RawAttr(<< "amount" >>, aOsmo) >>)
tReceived == RawEvent(<< "coin_received" >>, << RawAttr(<< "receiver" >>, A2),
                                                RawAttr(<< "amount" >>, aDigits) >>)
tPacket   == RawEvent(<< "fungible_token_packet" >>,
                      << RawAttr(B64(<< "sender" >>), B64(A2)),
                         RawAttr(<< "receiver" >>, A1),
                         RawAttr(<< "denom" >>, aDenom) >>)
tMessage  == RawEvent(TMessage, << RawAttr(Action, ActSend),
                                   RawAttr(<< "sender" >>, A1),
                                   RawAttr(<< "validator" >>, V2) >>)

TransferCalls ==
  { [fn |-> "extractTransferData", events |-> events] :
      events \in DecodedLists({ tSend, tSpent, tReceived, tPacket, tMessage }) }

\* strings of up to MaxTextLen code units: letters of one, two and three
\* UTF-8 bytes (A, ~, e-acute, the euro sign) and the two surrogates of an
\* emoji of four bytes, which also occur unpaired
MaxTextLen == 3

TextUnits == { 65, 126, 233, 8364, 55357, 56832 }

Texts == SeqsUpTo(TextUnits, MaxTextLen)

\* the encoded text is obtained as the test obtains it:
\* Buffer.from(text).toString('base64')
Base64Calls ==
  { [fn |-> "decodeBase64", text |-> text,
     str |-> ToStringBase64(BufferFromUtf8(text))] : text \in Texts }

InitParser ==
  /\ parseIn \in ParserCalls \cup EnhancedCalls \cup ExtractCalls \cup DecodeCalls
                 \cup TransferCalls \cup Base64Calls
  /\ parseOut = NoCall
  /\ IdleCond /\ IdleMatch /\ IdleEngine /\ IdleFilterManager /\ IdleClient
  /\ IdleConn

Returned(value) == [called |-> TRUE, result |-> value]

\* MessageParser.extractStakingDetails(events)
CallExtractStakingDetails ==
  /\ ~parseOut.called
  /\ parseIn.fn = "extractStakingDetails"
  /\ parseOut' = Returned(extractStakingDetails(parseIn.events))
  /\ UNCHANGED << parseIn, condVars, matchVars, engineVars, fmVars, clientVars,
                  connVars >>

\* MessageParser.extractIBCDetails(events)
CallExtractIBCDetails ==
  /\ ~parseOut.called
  /\ parseIn.fn = "extractIBCDetails"
  /\ parseOut' = Returned(extractIBCDetails(parseIn.events))
  /\ UNCHANGED << parseIn, condVars, matchVars, engineVars, fmVars, clientVars,
                  connVars >>

\* MessageParser.processEnhancedTxMessage(message)
CallProcessEnhancedTxMessage ==
  /\ ~parseOut.called
  /\ parseIn.fn = "processEnhancedTxMessage"
  /\ parseOut' = Returned(processEnhancedTxMessage(parseIn.message))
  /\ UNCHANGED << parseIn, condVars, matchVars, engineVars, fmVars, clientVars,
                  connVars >>

\* MessageParser.extractTxResult(message)
CallExtractTxResult ==
  /\ ~parseOut.called
  /\ parseIn.fn = "extractTxResult"
  /\ parseOut' = Returned(IF HasTxResult(parseIn.message)
                          THEN [kind |-> "object", tx |-> extractTxResult(parseIn.message)]
                          ELSE [kind |-> "null"])
  /\ UNCHANGED << parseIn, condVars, matchVars, engineVars, fmVars, clientVars,
                  connVars >>

\* MessageParser.decodeEvents(events)
CallDecodeEvents ==
  /\ ~parseOut.called
  /\ parseIn.fn = "decodeEvents"
  /\ parseOut' = Returned(decodeEvents(parseIn.events))
  /\ UNCHANGED << parseIn, condVars, matchVars, engineVars, fmVars, clientVars,
                  connVars >>

\* MessageParser.extractTransferData(events)
CallExtractTransferData ==
  /\ ~parseOut.called
  /\ parseIn.fn = "extractTransferData"
  /\ parseOut' = Returned(extractTransferData(parseIn.events))
  /\ UNCHANGED << parseIn, condVars, matchVars, engineVars, fmVars, clientVars,
                  connVars >>

\* MessageParser.decodeBase64(str)
CallDecodeBase64 ==
  /\ ~parseOut.called
  /\ parseIn.fn = "decodeBase64"
  /\ parseOut' = Returned(decodeBase64Text(parseIn.str))
  /\ UNCHANGED << parseIn, condVars, matchVars, engineVars, fmVars, clientVars,
                  connVars >>

NextParser ==
  \/ CallDecodeBase64
  \/ CallExtractTransferData
  \/ CallExtractStakingDetails
  \/ CallExtractIBCDetails
  \/ CallProcessEnhancedTxMessage
  \/ CallExtractTxResult
  \/ CallDecodeEvents

SpecParser == InitParser /\ [][NextParser]_vars

-----------------------------------------------------------------------------
(* SpecConn: the life of one client.  The application calls connect()      *)
(* once and disconnect() at any time; the file system settles the reads of *)
(* loadFilters one by one; a socket opens, fails to connect, delivers      *)
(* frames and closes; reconnect timeouts fire.                             *)

\* the largest maxReconnectAttempts configured
MaxAttempts == 2

\* the connect() calls of one behaviour
MaxCalls == 3

ConnFileConfigs ==
  { << >>,
    << File(<< "delegator" >>, Arr(<< A1, A3 >>)),
       File(<< "validator" >>, Arr(<< V1 >>)) >>,
    << File(<< "delegator" >>, Arr(<< A1, A3 >>)),
       File(<< "sender" >>, [kind |-> "object"]) >>,
    << File(<< "sender" >>, [kind |-> "missing"]),
       File(<< "delegator" >>, Arr(<< A1 >>)) >> }

ConnFrames ==
  { BadFrame,
    Frame(Message(TRUE, Result(U, U), U)),
    TxFrame(<< xDelegate >>, U, U) }

InitConn ==
  /\ maxReconnectAttempts \in 0..MaxAttempts
  /\ reconnectAttempts = 0
  /\ connected = FALSE
  /\ ws = 0
  /\ calls = << >>
  /\ timers = 0
  /\ connEmitted = << >>
  /\ filterFiles \in ConnFileConfigs
  /\ walletAddresses = << >>
  /\ wasmContractFilter = [kind |-> "null"]
  /\ eventFilters = << >>
  /\ jsonFilters = EmptyMap
  /\ loadPending = [state |-> "idle", rest |-> << >>]
  /\ fmIn = Tx(Undefined, Undefined, << "0" >>, << >>)
  /\ fmOut = NoCall
  /\ IdleCond /\ IdleMatch /\ IdleEngine /\ IdleClient /\ IdleParser

\* the application calls connect(): lines 181-183 up to the first await
Connect ==
  /\ Len(calls) = 0
  /\ calls' = << NewCall("user", filterFiles, jsonFilters) >>
  /\ connEmitted' = << >>
  /\ UNCHANGED << maxReconnectAttempts, reconnectAttempts, connected, ws, timers,
                  condVars, matchVars, engineVars, fmVars, clientVars, parserVars >>

\* an awaited readFile of loadFilters settles (index.ts 115-127): the list
\* is stored and the loop goes on, or loadFilters throws and connect catches
\* the error (client.ts 184-186)
ReadFileSettles ==
  \E c \in DOMAIN calls :
    /\ calls[c].stage = "loading"
    /\ LET entry == Head(calls[c].rest)
       IN  IF FileLoads(entry.file)
           THEN /\ jsonFilters' = FiltersAfterFile(jsonFilters, entry)
                /\ calls' = [calls EXCEPT
                     ![c].rest  = Tail(@),
                     ![c].stage = IF Len(calls[c].rest) = 1 THEN "loaded" ELSE "loading"]
           ELSE /\ jsonFilters' = jsonFilters
                /\ calls' = [calls EXCEPT ![c].rest = << >>,
                                          ![c].loadFailed = TRUE,
                                          ![c].stage = "loaded"]
    /\ connEmitted' = << >>
    /\ UNCHANGED << maxReconnectAttempts, reconnectAttempts, connected, ws, timers,
                    walletAddresses, wasmContractFilter, eventFilters, filterFiles,
                    loadPending, fmIn, fmOut,
                    condVars, matchVars, engineVars, clientVars, parserVars >>

\* connect goes on after the load: lines 189-192, new WebSocket
OpenSocket ==
  \E c \in DOMAIN calls :
    /\ calls[c].stage = "loaded"
    /\ calls' = [calls EXCEPT ![c].stage = "connecting"]
    /\ ws' = c
    /\ connEmitted' = << >>
    /\ UNCHANGED << maxReconnectAttempts, reconnectAttempts, connected, timers,
                    condVars, matchVars, engineVars, fmVars, clientVars, parserVars >>

\* the 'open' listener of the socket of call c: lines 195-201
OnOpen ==
  \E c \in DOMAIN calls :
    /\ ~ContinuationPending
    /\ calls[c].stage = "connecting"
    /\ connected' = TRUE
    /\ reconnectAttempts' = 0
    /\ connEmitted' = << [type |-> "connected"] >>
    /\ LET opened == [calls EXCEPT ![c].stage = "open", ![c].opened = TRUE]
       IN  calls' = IF SendThrows(opened, ws) THEN opened
                    ELSE [subscribe(opened, ws) EXCEPT ![c].promise = "resolved"]
    /\ UNCHANGED << maxReconnectAttempts, ws, timers,
                    condVars, matchVars, engineVars, fmVars, clientVars, parserVars >>

\* the 'close' listener: lines 207-211, with handleReconnect
CloseListener(c, before) ==
  LET r == handleReconnect(reconnectAttempts, maxReconnectAttempts)
  IN  /\ connected' = FALSE
      /\ reconnectAttempts' = r.attempts
      /\ timers' = timers + r.scheduled
      /\ connEmitted' = before \o << [type |-> "disconnected"] >> \o r.emitted
                          \o (IF before # << >> /\ calls[c].by = "timer"
                              THEN << [type |-> "error"] >> ELSE << >>)

\* the connection of the socket of call c fails, or its close() came before
\* the connection was made: the socket emits 'error' (lines 213-216: Error,
\* reject) and then 'close'; the catch of handleReconnect (lines 316-318)
\* emits Error once more for a call it made
OnConnectError ==
  \E c \in DOMAIN calls :
    /\ ~ContinuationPending
    /\ calls[c].stage \in { "connecting", "aborting" }
    /\ calls' = [calls EXCEPT ![c].stage = "closed", ![c].promise = "rejected"]
    /\ CloseListener(c, << [type |-> "error"] >>)
    /\ UNCHANGED << maxReconnectAttempts, ws,
                    condVars, matchVars, engineVars, fmVars, clientVars, parserVars >>

\* the socket of call c closes: the peer or the network ended it, or the
\* close handshake that disconnect() began is over
OnClose ==
  \E c \in DOMAIN calls :
    /\ ~ContinuationPending
    /\ calls[c].stage \in { "open", "closing" }
    /\ calls' = [calls EXCEPT ![c].stage = "closed"]
    /\ CloseListener(c, << >>)
    /\ UNCHANGED << maxReconnectAttempts, ws,
                    condVars, matchVars, engineVars, fmVars, clientVars, parserVars >>

\* a timeout of handleReconnect fires: lines 315-319, connect() up to its
\* first await
TimerFires ==
  /\ ~ContinuationPending
  /\ timers > 0
  /\ Len(calls) < MaxCalls
  /\ timers' = timers - 1
  /\ calls' = Append(calls, NewCall("timer", filterFiles, jsonFilters))
  /\ connEmitted' = << >>
  /\ UNCHANGED << maxReconnectAttempts, reconnectAttempts, connected, ws,
                  condVars, matchVars, engineVars, fmVars, clientVars, parserVars >>

\* the application calls disconnect(): lines 376-380; close() starts the
\* close handshake of an open socket and aborts a connecting one
Disconnect ==
  /\ ws # 0
  /\ calls[ws].stage \in { "connecting", "open" }
  /\ calls' = [calls EXCEPT
       ![ws].stage = IF @ = "open" THEN "closing" ELSE "aborting",
       ![ws].userClosed = TRUE]
  /\ connEmitted' = << >>
  /\ UNCHANGED << maxReconnectAttempts, reconnectAttempts, connected, ws, timers,
                  condVars, matchVars, engineVars, fmVars, clientVars, parserVars >>

\* the 'message' listener of the open socket of call c: lines 203-205
OnSocketMessage ==
  \E c \in DOMAIN calls :
    /\ ~ContinuationPending
    /\ calls[c].stage = "open"
    /\ \E data \in ConnFrames :
         /\ lastMessage' = [handled |-> TRUE, data |-> data]
         /\ emitted' = HandlerEmits(excludeUnwantedEvents, wasmContractFilter,
                                    walletAddresses, jsonFilters, eventFilters,
                                    advFilters, data)
    /\ calls' = [calls EXCEPT ![c].received = TRUE]
    /\ connEmitted' = << >>
    /\ UNCHANGED << maxReconnectAttempts, reconnectAttempts, connected, ws, timers,
                    excludeUnwantedEvents, firstHandled,
                    condVars, matchVars, engineVars, fmVars, parserVars >>

NextConn ==
  \/ Connect
  \/ Disconnect
  \/ TimerFires
  \/ ReadFileSettles
  \/ OpenSocket
  \/ OnOpen
  \/ OnConnectError
  \/ OnClose
  \/ OnSocketMessage

SpecConn == InitConn /\ [][NextConn]_vars

-----------------------------------------------------------------------------
(* Claims                                                                  *)

\* C4: matchesCondition on one event: a missing key gives `negated`; a
\* present key with no condition value gives the opposite of `negated`;
\* otherwise the result is (some event value matches some condition value
\* under the match strategy) XOR negated.
C4_ConditionResult ==
  condOut.called =>
    LET e          == condIn.event
        c          == condIn.condition
        keyPresent == c.key \in DOMAIN e.attributes
        hasValue   == c.value.kind # "undefined"
        wanted     == IF c.value.kind = "array" THEN c.value.a ELSE << c.value.s >>
        someMatch  == \E i \in DOMAIN e.attributes[c.key] : \E j \in DOMAIN wanted :
                         ValueMatches(c.matchType, e.attributes[c.key][i], wanted[j])
    IN  condOut.result =
          IF ~keyPresent THEN c.negated
          ELSE IF ~hasValue THEN ~c.negated
          ELSE (someMatch # c.negated)

\* C4 witness: a negated condition with a value, on an event that has the
\* key but no matching value, has matched
C4_Witness ==
  /\ condOut.called
  /\ condIn.condition.negated
  /\ condIn.condition.value.kind = "string"
  /\ condIn.condition.key \in DOMAIN condIn.event.attributes
  /\ condOut.result

\* C7 (as claimed): a Regex condition whose pattern is malformed returns
\* false on every event that has the key, negated or not.
C7_MalformedRegexNeverMatches ==
  ( /\ condOut.called
    /\ condIn.condition.matchType = "regex"
    /\ condIn.condition.value.kind = "string"
    /\ RegExpThrows(condIn.condition.value.s)
    /\ condIn.condition.key \in DOMAIN condIn.event.attributes )
  => condOut.result = FALSE

\* C5: over the candidate events of a filter (type in eventType, or all when
\* eventType is absent), anyOf holds iff some candidate satisfies some anyOf
\* condition, allOf iff every allOf condition is satisfied by some candidate
\* (not necessarily the same one), noneOf iff no candidate satisfies any
\* noneOf condition; the filter is rejected at the first of them that fails.
C5_AnyAllNone ==
  (mfOut.called /\ mfOut.exit \notin {"txHash", "range", "or", "and"}) =>
    LET f     == mfIn.filter
        evs   == mfIn.tx.decodedEvents
        types == IF f.eventType.kind = "array" THEN f.eventType.a
                 ELSE << f.eventType.s >>
        cand  == { i \in DOMAIN evs :
                     \/ f.eventType.kind = "undefined"
                     \/ \E t \in DOMAIN types : types[t] = evs[i].type }
        sat(i, c) == matchesCondition(evs[i], c)
        anyOK  == Len(f.anyOf) = 0
                  \/ \E i \in cand : \E j \in DOMAIN f.anyOf : sat(i, f.anyOf[j])
        allOK  == \A j \in DOMAIN f.allOf : \E i \in cand : sat(i, f.allOf[j])
        noneOK == \A i \in cand : \A j \in DOMAIN f.noneOf : ~sat(i, f.noneOf[j])
    IN  cand # {} =>
          /\ (mfOut.exit = "anyOf")  = ~anyOK
          /\ (mfOut.exit = "allOf")  = (anyOK /\ ~allOK)
          /\ (mfOut.exit = "noneOf") = (anyOK /\ allOK /\ ~noneOK)
          /\ (mfOut.exit \in {"match", "messageType"}) = (anyOK /\ allOK /\ noneOK)

\* C5 witness: a filter with two allOf conditions has matched a transaction
\* none of whose events satisfies both
C5_Witness ==
  /\ mfOut.called
  /\ mfOut.exit = "match"
  /\ Len(mfIn.filter.allOf) = 2
  /\ \A i \in DOMAIN mfIn.tx.decodedEvents :
       \E j \in DOMAIN mfIn.filter.allOf :
          ~matchesCondition(mfIn.tx.decodedEvents[i], mfIn.filter.allOf[j])

\* every filter nested in f through or / and lists, f included
RECURSIVE NestedIn(_)
NestedIn(f) ==
  {f} \cup UNION { NestedIn(f.or[i]) : i \in DOMAIN f.or }
      \cup UNION { NestedIn(f.and[i]) : i \in DOMAIN f.and }

\* C6: at every nesting depth a filter with a non-empty `or` list matches
\* only if some sub-filter matches, with a non-empty `and` list only if every
\* sub-filter matches; an empty list never rejects; a txHash mismatch rejects
\* first, a range violation next, before any sub-filter or condition.
C6_NestedOrAnd ==
  mfOut.called =>
    LET tx == mfIn.tx
    IN  \A g \in NestedIn(mfIn.filter) :
          LET r == IF g = mfIn.filter THEN mfOut.exit ELSE matchesFilterExit(tx, g)
              hashes       == IF g.txHash.kind = "array" THEN g.txHash.a
                              ELSE << g.txHash.s >>
              hashMismatch == /\ g.txHash.kind # "undefined"
                              /\ \A h \in DOMAIN hashes : hashes[h] # tx.txhash
              value        == ToNumber(TxField(tx, g.range.field))
              rangeBroken  == /\ g.range.kind = "range"
                              /\ \/ value.nan
                                 \/ g.range.hasMin /\ value.n < g.range.min
                                 \/ g.range.hasMax /\ value.n > g.range.max
          IN  /\ (Len(g.or) > 0 /\ r = "match")
                   => \E i \in DOMAIN g.or : matchesFilter(tx, g.or[i])
              /\ (Len(g.and) > 0 /\ r = "match")
                   => \A i \in DOMAIN g.and : matchesFilter(tx, g.and[i])
              /\ Len(g.or) = 0 => r # "or"
              /\ Len(g.and) = 0 => r # "and"
              /\ hashMismatch => r = "txHash"
              /\ (~hashMismatch /\ rangeBroken) => r = "range"

\* C6 witness: a filter whose `or` list holds a filter with an `or` list of
\* its own has matched
C6_Witness ==
  /\ mfOut.called
  /\ mfOut.exit = "match"
  /\ Len(mfIn.filter.or) > 0
  /\ Len(mfIn.filter.or[1].or) > 0
  /\ Len(mfIn.filter.and) > 0

\* the name applyFilters reports for a filter
ReportedName(f) == IF f.name \in {Undefined, << >>} THEN << "unnamed_filter" >> ELSE f.name

\* C8: applyFilters passes iff no filter is registered or some registered
\* filter matches; matchedFilters is the names of exactly the matching
\* filters in registration order, 'unnamed_filter' standing for a missing
\* name; matchesAnyFilter returns the same boolean as passed.
C8_EngineApplyFilters ==
  advOut.called =>
    LET tx   == advOut.tx
        hit  == { i \in DOMAIN advFilters : matchesFilter(tx, advFilters[i]) }
        m    == advOut.result.matchedFilters
    IN  /\ advOut.result.passed = (Len(advFilters) = 0 \/ hit # {})
        /\ Len(m) = Cardinality(hit)
        /\ \E pos \in [DOMAIN m -> hit] :
             /\ \A k, l \in DOMAIN m : k < l => pos[k] < pos[l]
             /\ \A k \in DOMAIN m : m[k] = ReportedName(advFilters[pos[k]])
        /\ (anyOut.called /\ anyOut.tx = tx) => anyOut.result = advOut.result.passed

\* C8 witness: two registered filters match, the first of them unnamed, and
\* matchesAnyFilter was asked about the same transaction
C8_Witness ==
  /\ advOut.called
  /\ anyOut.called
  /\ anyOut.tx = advOut.tx
  /\ Len(advFilters) = 2
  /\ advOut.result.matchedFilters = << << "unnamed_filter" >>, << "wasm-calls" >> >>

\* the evidence record of a tier in an applyFilters result, as a sequence of
\* zero or one records
Evidence(result, tier) ==
  SelectIdx(result.matchedFilters,
            {i \in DOMAIN result.matchedFilters :
               result.matchedFilters[i].filterType = tier}, 1)

\* C1: passed holds iff every configured tier matches (contract list set,
\* wallet list non-empty, loaded attribute lists non-empty, event filter
\* list non-empty); with only wallets configured passed holds iff the wallet
\* evidence is non-empty; a configured event filter list that no event
\* satisfies makes passed false.
C1_PassedIsConjunction ==
  fmOut.called =>
    LET tx        == fmIn
        r         == fmOut.result
        wasmCfg   == wasmContractFilter.kind # "null"
        walletCfg == walletAddresses # << >>
        jsonCfg   == DOMAIN fmOut.filters # {}
        eventCfg  == eventFilters # << >>
        walletEv  == Evidence(r, "walletAddress")
    IN  /\ r.passed =
             ( /\ wasmCfg => checkWasmContractFilter(wasmContractFilter, tx)
               /\ walletCfg => checkWalletAddressFilter(walletAddresses, tx).matches
               /\ jsonCfg => checkJsonFilters(fmOut.filters, tx)
               /\ eventCfg => checkEventFilters(eventFilters, tx) )
        /\ (walletCfg /\ ~wasmCfg /\ ~jsonCfg /\ ~eventCfg) =>
             (r.passed = (Len(walletEv) = 1 /\ Len(walletEv[1].matches) > 0))
        /\ ( /\ eventCfg
             /\ \A i \in DOMAIN tx.decodedEvents : \A f \in DOMAIN eventFilters :
                  ~EventFilterMatches(tx.decodedEvents[i], eventFilters[f]) )
           => ~r.passed

\* C1 witness: only wallets and event filters are configured, the wallet
\* tier has evidence, no event satisfies an event filter, and the
\* transaction failed
C1_Witness ==
  /\ fmOut.called
  /\ wasmContractFilter.kind = "null"
  /\ DOMAIN fmOut.filters = {}
  /\ walletAddresses # << >>
  /\ eventFilters # << >>
  /\ Len(Evidence(fmOut.result, "walletAddress")) = 1
  /\ ~fmOut.result.passed

C9_Qualifies(action) ==
  \/ StartsWith(action, << "/", "cosmos", ".", "staking", "." >>)
  \/ StartsWith(action, << "/", "cosmos", ".", "distribution", "." >>)
  \/ StartsWith(action, << "/", "ibc", "." >>)
  \/ Includes(action, << "wasm" >>)

C9_Roles == { << "sender" >>, << "recipient" >>, << "delegator" >>,
              << "validator" >>, << "spender" >> }

\* C9: with wallet addresses configured, the wallet tier matches iff some
\* message event has a qualifying action and, on that same event, a sender,
\* recipient, delegator, validator or spender value that is a configured
\* address; every evidence record carries such an action, the key as role
\* and a configured address, all taken from one message event.
C9_WalletTier ==
  (fmOut.called /\ walletAddresses # << >>) =>
    LET evs      == fmIn.decodedEvents
        r        == fmOut.result
        entry    == Evidence(r, "walletAddress")
        details  == IF Len(entry) = 0 THEN << >> ELSE entry[1].matches
        Has(e, key, v) == \E i \in DOMAIN Attr(e, key) : Attr(e, key)[i] = v
        expected ==
          \E i \in DOMAIN evs :
            /\ evs[i].type = << "message" >>
            /\ \E a \in DOMAIN Attr(evs[i], Action) : C9_Qualifies(Attr(evs[i], Action)[a])
            /\ \E key \in C9_Roles : \E w \in DOMAIN walletAddresses :
                 Has(evs[i], key, walletAddresses[w])
    IN  /\ (Len(entry) = 1) = expected
        /\ (Len(details) > 0) = expected
        /\ ~expected => ~r.passed
        /\ \A d \in DOMAIN details :
             /\ C9_Qualifies(details[d].action)
             /\ details[d].role \in C9_Roles
             /\ \E w \in DOMAIN walletAddresses : walletAddresses[w] = details[d].address
             /\ \E i \in DOMAIN evs :
                  /\ evs[i].type = << "message" >>
                  /\ Has(evs[i], Action, details[d].action)
                  /\ Has(evs[i], details[d].role, details[d].address)

\* C9 witness: a bank send and a delegation by the watched address: only the
\* delegation is recorded
C9_Witness ==
  /\ fmOut.called
  /\ walletAddresses = << A1 >>
  /\ fmIn.decodedEvents = << mSend, mDelegate >>
  /\ Evidence(fmOut.result, "walletAddress") =
       << [filterType |-> "walletAddress",
           matches |-> << [action |-> ActDelegate, role |-> << "delegator" >>,
                           address |-> A1] >>] >>

\* C10 (as claimed): with event filters configured, the tier passes iff some
\* event e and rule r agree on type (when r names types) and, when r has
\* attribute constraints, some constrained key has a value on e among the
\* allowed ones; a rule without attribute constraints matches on type alone.
C10_EventFilterTier ==
  (fmOut.called /\ eventFilters # << >>) =>
    LET evs == fmIn.decodedEvents
        typeOK(e, r) ==
          \/ r.type.kind = "undefined"
          \/ \E t \in DOMAIN ToArray(r.type) : ToArray(r.type)[t] = e.type
        constrained(r) ==
          IF r.attributes.kind = "object" THEN DOMAIN r.attributes.map ELSE {}
        attrsOK(e, r) ==
          constrained(r) # {} =>
            \E k \in constrained(r) : \E v \in DOMAIN Attr(e, k) :
               ArrayIncludes(ToArray(r.attributes.map[k]), Attr(e, k)[v])
    IN  (Len(Evidence(fmOut.result, "eventFilter")) = 1) =
          (\E i \in DOMAIN evs : \E f \in DOMAIN eventFilters :
              typeOK(evs[i], eventFilters[f]) /\ attrsOK(evs[i], eventFilters[f]))

-----------------------------------------------------------------------------
(* Claims about the message handler                                        *)

EmittedCount(type) == Cardinality({i \in DOMAIN emitted : emitted[i].type = type})

\* the frame parsed and carries result.data.value.TxResult
CarriesTxResult(data) ==
  /\ data.parses
  /\ data.message.result.kind = "object"
  /\ data.message.result.data.kind = "object"
  /\ data.message.result.data.TxResult.kind = "object"

\* the frame parsed and has the key aggregate_vote.exchange_rates in its
\* result.events or in its root events
CarriesOracleVote(data) ==
  /\ data.parses
  /\ \/ /\ data.message.result.kind = "object"
        /\ data.message.result.events.kind = "object"
        /\ \E i \in DOMAIN data.message.result.events.entries :
             data.message.result.events.entries[i].key = AggregateVoteKey
     \/ /\ data.message.events.kind = "object"
        /\ \E i \in DOMAIN data.message.events.entries :
             data.message.events.entries[i].key = AggregateVoteKey

\* C2: for a frame that parses, carries a TxResult payload and is not
\* suppressed as unwanted, the handler emits Tx exactly once, whatever the
\* filter configuration and the filter outcome; for a frame that parses and
\* carries no TxResult payload it emits no Tx and no Error.
C2_TxEmittedOnce ==
  lastMessage.handled =>
    LET data == lastMessage.data
    IN  /\ ( CarriesTxResult(data)
             /\ ~(excludeUnwantedEvents /\ CarriesOracleVote(data)) )
          => EmittedCount("tx") = 1
        /\ (data.parses /\ ~CarriesTxResult(data))
          => EmittedCount("tx") = 0 /\ EmittedCount("error") = 0

\* a transaction that fails the filters was handled, and Tx was emitted
C2_Witness ==
  /\ lastMessage.handled
  /\ CarriesTxResult(lastMessage.data)
  /\ EmittedCount("tx") = 1
  /\ EmittedCount("filtered_tx") = 0
  /\ Len(walletAddresses) > 0

\* C3: with suppression enabled, a frame that has the key
\* aggregate_vote.exchange_rates in result.events or in its root events
\* gets no event after Message; a frame without the key, and any frame when
\* suppression is disabled, is processed: Tx is emitted when it carries a
\* TxResult payload.
C3_UnwantedSuppression ==
  lastMessage.handled =>
    LET data == lastMessage.data
    IN  /\ (excludeUnwantedEvents /\ CarriesOracleVote(data))
          => /\ Len(emitted) = 1
             /\ emitted[1].type = "message"
        /\ ( CarriesTxResult(data)
             /\ (~excludeUnwantedEvents \/ ~CarriesOracleVote(data)) )
          => EmittedCount("tx") = 1

\* a transaction whose root events carry the key was dropped
C3_Witness ==
  /\ lastMessage.handled
  /\ excludeUnwantedEvents
  /\ CarriesTxResult(lastMessage.data)
  /\ CarriesOracleVote(lastMessage.data)
  /\ lastMessage.data.message.events.kind = "object"
  /\ Len(emitted) = 1

-----------------------------------------------------------------------------
(* Claims about the attribute-list tier                                    *)

\* some event has an attribute, keyed by a configured key (or by 'receiver'
\* for the configured key 'recipient'), with a value in that key's list
C11_AllowedValuePresent(filters, tx) ==
  \E i \in DOMAIN tx.decodedEvents : \E k \in DOMAIN filters :
    \E key \in (IF k = << "recipient" >> THEN {k, << "receiver" >>} ELSE {k}) :
      /\ key \in DOMAIN tx.decodedEvents[i].attributes
      /\ \E v \in DOMAIN tx.decodedEvents[i].attributes[key] :
           \E a \in DOMAIN filters[k] :
             filters[k][a] = tx.decodedEvents[i].attributes[key][v]

\* C11: the attribute-list tier passes iff the loaded map is empty or some
\* decoded event has an attribute under a configured key with a value in
\* that key's list, 'receiver' standing in for a configured 'recipient' and
\* no other key standing in for another; a configured tier that passes
\* leaves its evidence, one that does not fails the transaction.
C11_JsonTier ==
  fmOut.called =>
    LET filters  == fmOut.filters
        expected == DOMAIN filters = {} \/ C11_AllowedValuePresent(filters, fmIn)
    IN  /\ checkJsonFilters(filters, fmIn) = expected
        /\ DOMAIN filters # {} =>
             ((Len(Evidence(fmOut.result, "jsonFilter")) = 1) = expected)
        /\ ~expected => ~fmOut.result.passed

\* a list loaded under 'recipient' was matched by a 'receiver' attribute of
\* a transaction that has no 'recipient' attribute
C11_Witness ==
  /\ fmOut.called
  /\ DOMAIN fmOut.filters = { << "recipient" >> }
  /\ \A i \in DOMAIN fmIn.decodedEvents :
       << "recipient" >> \notin DOMAIN fmIn.decodedEvents[i].attributes
  /\ Len(Evidence(fmOut.result, "jsonFilter")) = 1

-----------------------------------------------------------------------------
(* Claims about the extracted facts                                        *)

\* the first value of an attribute of an event, << >> when it has none
C13_Value(event, key) ==
  IF key \in DOMAIN event.attributes /\ Len(event.attributes[key]) > 0
  THEN event.attributes[key][1] ELSE << >>

\* the leading digits of an amount, and the rest of it
C13_LeadingDigits(amount) ==
  SelectIdx(amount, {i \in DOMAIN amount : \A j \in 1..i : amount[j] \in Digits}, 1)

C13_Rest(amount) ==
  SelectIdx(amount, {i \in DOMAIN amount : \E j \in 1..i : amount[j] \notin Digits}, 1)

\* the fact the claim expects of one recognised staking event, as zero or
\* one records [delegator, amount, denom]
C13_Expected(event) ==
  LET delegator == IF C13_Value(event, << "delegator" >>) # << >>
                   THEN C13_Value(event, << "delegator" >>)
                   ELSE C13_Value(event, << "sender" >>)
      validators == IF StakingBranch(event) = "redelegate"
                    THEN { C13_Value(event, << "source_validator" >>),
                           C13_Value(event, << "destination_validator" >>) }
                    ELSE { C13_Value(event, << "validator" >>) }
      amount == C13_Value(event, << "amount" >>)
  IN  IF StakingBranch(event) # "none" /\ delegator # << >> /\ validators # { << >> }
      THEN << [delegator |-> delegator,
               amount    |-> C13_LeadingDigits(amount),
               denom     |-> C13_Rest(amount)] >>
      ELSE << >>

\* C13: every event recognised as a staking event yields exactly one fact
\* iff a delegator (the sender when there is no delegator) and a validator
\* field are present, and no fact otherwise; the fact's amount is the
\* leading digits of the amount attribute and its denom the rest.
C13_StakingFacts ==
  (parseOut.called /\ parseIn.fn = "extractStakingDetails") =>
    [i \in DOMAIN parseOut.result |->
       [delegator |-> parseOut.result[i].delegator,
        amount    |-> parseOut.result[i].amount,
        denom     |-> parseOut.result[i].denom]]
    = Concat([e \in DOMAIN parseIn.events |-> C13_Expected(parseIn.events[e])])

\* C14: a message event whose action names MsgDelegate, MsgUndelegate,
\* MsgBeginRedelegate or MsgWithdrawDelegatorReward is a staking event: when
\* it has a delegator and a validator field, the facts hold one for that
\* delegator with the action delegate, undelegate, redelegate or
\* withdraw_rewards.
C14_MessageActionsAreStaking ==
  (parseOut.called /\ parseIn.fn = "extractStakingDetails") =>
    \A e \in DOMAIN parseIn.events :
      \A kind \in { << << "MsgDelegate" >>, "delegate" >>,
                    << << "MsgUndelegate" >>, "undelegate" >>,
                    << << "MsgBeginRedelegate" >>, "redelegate" >>,
                    << << "MsgWithdrawDelegatorReward" >>, "withdraw_rewards" >> } :
        LET event == parseIn.events[e]
        IN  ( /\ event.type = << "message" >>
              /\ ActionIncludes(event, kind[1])
              /\ C13_Value(event, << "delegator" >>) # << >>
              /\ \E v \in { << "validator" >>, << "source_validator" >>,
                            << "destination_validator" >> } :
                   C13_Value(event, v) # << >> )
            => \E i \in DOMAIN parseOut.result :
                 /\ parseOut.result[i].action = kind[2]
                 /\ parseOut.result[i].delegator = C13_Value(event, << "delegator" >>)

\* the transfer events that have a sender, a recipient and an amount
C15_Correlated(events) ==
  { i \in DOMAIN events :
      /\ events[i].type = << "transfer" >>
      /\ C13_Value(events[i], << "sender" >>) # << >>
      /\ C13_Value(events[i], << "recipient" >>) # << >>
      /\ C13_Value(events[i], << "amount" >>) # << >> }

\* C15: when the transaction has a send_packet whose source port is
\* 'transfer', the number of cross-chain facts is the number of transfer
\* events that have a sender, a recipient and an amount, however many
\* send_packet events there are; with no such send_packet there is none.
C15_OneFactPerTransfer ==
  (parseOut.called /\ parseIn.fn = "extractIBCDetails") =>
    LET events == parseIn.events
        packet == \E i \in DOMAIN events :
                    /\ events[i].type = << "send_packet" >>
                    /\ C13_Value(events[i], << "packet_src_port" >>) = << "transfer" >>
    IN  Len(parseOut.result) = IF packet THEN Cardinality(C15_Correlated(events)) ELSE 0

-----------------------------------------------------------------------------
(* Claims about the classification                                         *)

\* the message names in the order the claim gives them, with their class
C12_ActionPriority ==
  << << "MsgSwap", "swap" >>,
     << "MsgDelegate", "delegate" >>,
     << "MsgUndelegate", "undelegate" >>,
     << "MsgBeginRedelegate", "redelegate" >>,
     << "MsgWithdrawDelegatorReward", "withdraw_rewards" >>,
     << "MsgVote", "governance_vote" >>,
     << "MsgDeposit", "proposal_deposit" >> >>

\* the ranks of C12_ActionPriority that an action of a message event names
C12_NamedRanks(decodedEvents) ==
  { r \in DOMAIN C12_ActionPriority :
      \E i \in DOMAIN decodedEvents :
        /\ decodedEvents[i].type = << "message" >>
        /\ << "action" >> \in DOMAIN decodedEvents[i].attributes
        /\ \E a \in DOMAIN decodedEvents[i].attributes[<< "action" >>] :
             \E c \in DOMAIN decodedEvents[i].attributes[<< "action" >>][a] :
               decodedEvents[i].attributes[<< "action" >>][a][c]
                 = C12_ActionPriority[r][1] }

C12_HasType(decodedEvents, type) ==
  \E i \in DOMAIN decodedEvents : decodedEvents[i].type = type

\* C12: the classification is that of the first message name, in the order
\* swap, delegate, undelegate, redelegate, withdraw-reward, vote, deposit,
\* that an action of a message event names; when none is named it is swap
\* if there are swap facts, else the action of the first staking fact, else
\* ibc_transfer if there are cross-chain facts, else transfer for a transfer
\* event, else withdraw for a withdraw_position event, else unset.  A
\* MsgDelegate action with a token_swapped event classifies as delegate.
C12_ClassificationPriority ==
  (parseOut.called /\ parseIn.fn = "processEnhancedTxMessage"
     /\ parseOut.result.kind = "object") =>
    LET r      == parseOut.result
        events == r.tx.decodedEvents
        ranks  == C12_NamedRanks(events)
        first  == CHOOSE k \in ranks : \A j \in ranks : k <= j
    IN  /\ r.txType =
             IF ranks # {} THEN C12_ActionPriority[first][2]
             ELSE IF r.swapDetails # << >> THEN "swap"
             ELSE IF r.stakingDetails # << >> THEN r.stakingDetails[1].action
             ELSE IF r.ibcDetails # << >> THEN "ibc_transfer"
             ELSE IF C12_HasType(events, << "transfer" >>) THEN "transfer"
             ELSE IF C12_HasType(events, << "withdraw_position" >>) THEN "withdraw"
             ELSE "undefined"
        /\ (2 \in ranks /\ 1 \notin ranks /\ C12_HasType(events, << "token_swapped" >>))
             => r.txType = "delegate"

\* a transaction with a MsgDelegate action and a swap fact was classified
\* as delegate
C12_Witness ==
  /\ parseOut.called
  /\ parseIn.fn = "processEnhancedTxMessage"
  /\ parseOut.result.kind = "object"
  /\ parseOut.result.swapDetails # << >>
  /\ 2 \in C12_NamedRanks(parseOut.result.tx.decodedEvents)
  /\ parseOut.result.txType = "delegate"

-----------------------------------------------------------------------------
(* Claims about the flattened events                                       *)

\* the structured event list of a TxResult: that of result when result has
\* one, that of tx_result otherwise, << >> when there is none
C16_Structured(txResult) ==
  IF txResult.result.kind = "object" /\ txResult.result.events.kind = "array"
  THEN txResult.result.events.a
  ELSE IF txResult.tx_result.kind = "object" /\ txResult.tx_result.events.kind = "array"
  THEN txResult.tx_result.events.a
  ELSE << >>

\* the position of the first dot of a key, 0 when it has none
C16_Dot(key) ==
  IF \E i \in DOMAIN key : key[i] = "."
  THEN CHOOSE i \in DOMAIN key : key[i] = "." /\ \A j \in 1..(i - 1) : key[j] # "."
  ELSE 0

\* events is the reconstruction of the flattened map: one event per
\* distinct first segment in order of first appearance, its attributes the
\* (rest of key, value) pairs of that segment's keys in map order
C16_Reconstructs(events, flat) ==
  LET entries == flat.entries
      dotted  == { i \in DOMAIN entries : C16_Dot(entries[i].key) > 0 }
      seg(i)  == SubSeq(entries[i].key, 1, C16_Dot(entries[i].key) - 1)
      rest(i) == SubSeq(entries[i].key, C16_Dot(entries[i].key) + 1, Len(entries[i].key))
      firsts  == { i \in dotted : \A j \in dotted : seg(j) = seg(i) => i <= j }
      valid(t) == UNION { { << i, v >> : v \in DOMAIN entries[i].values } :
                            i \in { j \in dotted : seg(j) = t } }
      before(p, q) == p[1] < q[1] \/ (p[1] = q[1] /\ p[2] < q[2])
  IN  /\ Len(events) = Cardinality(firsts)
      /\ \A e \in DOMAIN events :
           \E i \in firsts :
             /\ Cardinality({ j \in firsts : j < i }) = e - 1
             /\ events[e].type = seg(i)
             /\ Len(events[e].attributes) = Cardinality(valid(seg(i)))
             /\ \A p \in valid(seg(i)) :
                  events[e].attributes[Cardinality({ q \in valid(seg(i)) : before(q, p) }) + 1]
                    = [key |-> rest(p[1]), value |-> entries[p[1]].values[p[2]],
                       index |-> TRUE]

-----------------------------------------------------------------------------
(* Claims about decoding                                                   *)

\* C17: decodeEvents returns one decoded event per input event, in the same
\* order and with the same type; rawAttributes has one entry per input
\* attribute, in order, with its key and value; attributes has exactly the
\* decoded keys of rawAttributes, and attributes[k] is the sequence of the
\* decodedValue of the entries whose decodedKey is k, in order, duplicates
\* kept.
C17_AttributesFromProvenance ==
  (parseOut.called /\ parseIn.fn = "decodeEvents") =>
    LET events  == parseIn.events
        decoded == parseOut.result
    IN  /\ Len(decoded) = Len(events)
        /\ \A e \in DOMAIN events :
             LET raw  == decoded[e].rawAttributes
                 of(k) == { a \in DOMAIN raw : raw[a].decodedKey = k }
             IN  /\ decoded[e].type = events[e].type
                 /\ Len(raw) = Len(events[e].attributes)
                 /\ \A a \in DOMAIN raw :
                      /\ raw[a].key = events[e].attributes[a].key
                      /\ raw[a].value = events[e].attributes[a].value
                 /\ DOMAIN decoded[e].attributes = { raw[a].decodedKey : a \in DOMAIN raw }
                 /\ \A k \in DOMAIN decoded[e].attributes :
                      /\ Len(decoded[e].attributes[k]) = Cardinality(of(k))
                      /\ \A a \in of(k) :
                           decoded[e].attributes[k][Cardinality({ b \in of(k) : b <= a })]
                             = raw[a].decodedValue

\* an event with the same decoded key under an encoded and a plain raw key,
\* and the same value twice, was decoded with the duplicate kept
C17_Witness ==
  /\ parseOut.called
  /\ parseIn.fn = "decodeEvents"
  /\ \E e \in DOMAIN parseOut.result :
       /\ << "sender" >> \in DOMAIN parseOut.result[e].attributes
       /\ parseOut.result[e].attributes[<< "sender" >>] = << A1, A2, A1 >>

\* the bech32 prefixes of the chains a client can be configured for
C18_ChainPrefixes == { "osmo1", "sei1", "cosmos1" }

C18_AddressKeys == { << "sender" >>, << "recipient" >>, << "delegator" >>,
                     << "validator" >> }

C18_IsAddress(prefix, value) ==
  Len(value) = 2 /\ value[1] = prefix /\ value[2] \in AddressBodies

\* C18: whatever the prefix P of the configured chain, an attribute with an
\* address-bearing key whose value is a P-prefixed address keeps it, and one
\* whose value is the base64 text of a P-prefixed address is decoded to
\* that address.
C18_ChainAddressDecoded ==
  (parseOut.called /\ parseIn.fn = "decodeEvents") =>
    \A prefix \in C18_ChainPrefixes :
      \A e \in DOMAIN parseOut.result :
        \A a \in DOMAIN parseOut.result[e].rawAttributes :
          LET attr == parseOut.result[e].rawAttributes[a]
          IN  attr.decodedKey \in C18_AddressKeys =>
                /\ C18_IsAddress(prefix, attr.value) => attr.decodedValue = attr.value
                /\ (Len(attr.value) > 1 /\ Head(attr.value) = "b64:"
                    /\ C18_IsAddress(prefix, Tail(attr.value)))
                     => attr.decodedValue = Tail(attr.value)

-----------------------------------------------------------------------------
(* Claims about the transfer facts                                         *)

\* the attribute name each set of the transfer facts collects
C19_NameOf ==
  [senders    |-> << "sender" >>,
   receivers  |-> << "receiver" >>,
   recipients |-> << "recipient" >>,
   spenders   |-> << "spender" >>,
   amounts    |-> << "amount" >>]

\* the values some event of the call holds under an attribute name
C19_ValuesOf(name) ==
  UNION { { parseIn.events[e].attributes[name][i] :
              i \in DOMAIN parseIn.events[e].attributes[name] } :
          e \in { d \in DOMAIN parseIn.events :
                    name \in DOMAIN parseIn.events[d].attributes } }

\* C19: extractTransferData gives set semantics: each of senders, receivers,
\* recipients, spenders and amounts holds every value that some event has
\* under the attribute of exactly that name, holds each value once, and holds
\* nothing else; when all events carry the same single sender value, senders
\* has size 1.
C19_SetSemantics ==
  (parseOut.called /\ parseIn.fn = "extractTransferData") =>
    \A field \in DOMAIN C19_NameOf :
      LET out == parseOut.result[field]
      IN  /\ { out[i] : i \in DOMAIN out } = C19_ValuesOf(C19_NameOf[field])
          /\ \A i, j \in DOMAIN out : out[i] = out[j] => i = j
          /\ Cardinality(C19_ValuesOf(C19_NameOf[field])) = 1 => Len(out) = 1

\* three events that repeat one sender value, one of them twice within the
\* event, while another attribute name carries a different value
C19_Witness ==
  /\ parseOut.called
  /\ parseIn.fn = "extractTransferData"
  /\ Len(parseIn.events) = 3
  /\ \A e \in DOMAIN parseIn.events :
       /\ << "sender" >> \in DOMAIN parseIn.events[e].attributes
       /\ \A i \in DOMAIN parseIn.events[e].attributes[<< "sender" >>] :
            parseIn.events[e].attributes[<< "sender" >>][i] = A1
  /\ \E e \in DOMAIN parseIn.events :
       Len(parseIn.events[e].attributes[<< "sender" >>]) = 2
  /\ parseOut.result.senders = << A1 >>
  /\ parseOut.result.recipients = << A2 >>
  /\ parseOut.result.receivers = << >>

-----------------------------------------------------------------------------
(* Claims about base64                                                     *)

\* text that UTF-8 can carry: every surrogate is one half of a pair
RECURSIVE C20_WellFormed(_)
C20_WellFormed(str) ==
  IF Len(str) = 0 THEN TRUE
  ELSE IF IsHighSurrogate(Head(str))
    THEN /\ Len(str) > 1
         /\ IsLowSurrogate(str[2])
         /\ C20_WellFormed(Tail(Tail(str)))
  ELSE ~IsLowSurrogate(Head(str)) /\ C20_WellFormed(Tail(str))

\* C20: round trip: for every string x of printable UTF-8 text,
\* decodeBase64 applied to the base64 encoding of x returns x.
C20_RoundTrip ==
  (/\ parseOut.called
   /\ parseIn.fn = "decodeBase64"
   /\ C20_WellFormed(parseIn.text))
    => parseOut.result = parseIn.text

\* a padded encoding of text with a letter of more than one byte has been
\* decoded back to the text
C20_Witness ==
  /\ parseOut.called
  /\ parseIn.fn = "decodeBase64"
  /\ C20_WellFormed(parseIn.text)
  /\ \E i \in DOMAIN parseIn.text : IsHighSurrogate(parseIn.text[i])
  /\ \E i \in DOMAIN parseIn.text : parseIn.text[i] = 8364
  /\ parseIn.str[Len(parseIn.str)] = "="
  /\ parseIn.str # parseIn.text
  /\ parseOut.result = parseIn.text

-----------------------------------------------------------------------------
(* Claims about candidate events                                           *)

\* no event of the transaction has a type the filter names, or the
\* transaction has no event at all
C29_NoCandidate(tx, filter) ==
  \/ Len(tx.decodedEvents) = 0
  \/ /\ filter.eventType.kind # "undefined"
     /\ \A i \in DOMAIN tx.decodedEvents :
          ~ArrayIncludes(ToArray(filter.eventType), tx.decodedEvents[i].type)

\* C29: an advanced filter never matches a transaction that has no candidate
\* event: matchesFilter returns false when no event has a type in the
\* filter's eventType or the transaction has no events, also for a filter
\* with only noneOf conditions, only a txHash, only a range, or only nested
\* sub-filters.
C29_NoCandidateNoMatch ==
  (mfOut.called /\ C29_NoCandidate(mfIn.tx, mfIn.filter)) => mfOut.exit # "match"

\* a filter whose only conditions are noneOf conditions, none of which holds
\* on any event, was rejected because no event has its eventType
C29_Witness ==
  /\ mfOut.called
  /\ C29_NoCandidate(mfIn.tx, mfIn.filter)
  /\ Len(mfIn.tx.decodedEvents) > 0
  /\ Len(mfIn.filter.noneOf) > 0
  /\ Len(mfIn.filter.anyOf) = 0
  /\ Len(mfIn.filter.allOf) = 0
  /\ ~Truthy(mfIn.filter.messageType)
  /\ NoneOfMatches(mfIn.tx.decodedEvents, mfIn.filter)
  /\ mfOut.exit = "noEvents"

-----------------------------------------------------------------------------
(* Claims about the handling of successive messages                        *)

\* the configuration and the state that handleWebSocketMessage reads
C24_ReadByHandler ==
  << excludeUnwantedEvents, wasmContractFilter, walletAddresses, jsonFilters,
     eventFilters, advFilters >>

\* the frame handled first was handled again, after other frames, with the
\* events of the first time
C24_SameEvents ==
  (lastMessage.handled /\ lastMessage.data = firstHandled.data)
    => emitted = firstHandled.emitted

-----------------------------------------------------------------------------
(* Claims about the order of the emitted events                            *)

C25_Rank ==
  [message |-> 1, tx |-> 2, filtered_tx |-> 3, wasm_tx |-> 4, wallet_tx |-> 5,
   staking_tx |-> 6]

C25_Has(type) == \E i \in DOMAIN emitted : emitted[i].type = type

\* C25: within the handling of one message the events are emitted in the
\* order Message, Tx, FilteredTx, WasmTx, WalletTx, StakingTx, each at most
\* once; Tx only after Message, FilteredTx only after Tx, the specialized
\* events only after FilteredTx; a frame that cannot be parsed emits none of
\* them and later frames are still handled.
C25_EmissionOrder ==
  lastMessage.handled =>
    /\ \A i, j \in DOMAIN emitted :
         (/\ i < j
          /\ emitted[i].type \in DOMAIN C25_Rank
          /\ emitted[j].type \in DOMAIN C25_Rank)
           => C25_Rank[emitted[i].type] < C25_Rank[emitted[j].type]
    /\ C25_Has("tx") => C25_Has("message")
    /\ C25_Has("filtered_tx") => C25_Has("tx")
    /\ \A type \in { "wasm_tx", "wallet_tx", "staking_tx" } :
         C25_Has(type) => C25_Has("filtered_tx")
    /\ ~lastMessage.data.parses => emitted = << >>
    /\ ENABLED OnMessage

\* after a frame that could not be parsed and after other frames, a
\* transaction was handled that emitted all six events
C25_Witness ==
  /\ firstHandled.handled
  /\ ~firstHandled.data.parses
  /\ firstHandled.emitted = << >>
  /\ firstHandled.others
  /\ lastMessage.handled
  /\ [i \in DOMAIN emitted |-> emitted[i].type]
       = << "message", "tx", "filtered_tx", "wasm_tx", "wallet_tx", "staking_tx" >>

-----------------------------------------------------------------------------
(* Claims about the advanced filters of the client                         *)

\* C26: when at least one advanced filter is registered on the client,
\* FilteredTx and the specialized events are emitted for a transaction only
\* if it matches at least one advanced filter in addition to passing the
\* basic filters.
C26_AdvancedFiltersGate ==
  [][(/\ UNCHANGED advFilters
      /\ Len(advFilters) > 0
      /\ lastMessage'.handled)
       => \A i \in DOMAIN emitted' :
            emitted'[i].type \in { "filtered_tx", "wasm_tx", "wallet_tx", "staking_tx" }
              => \E k \in DOMAIN advFilters :
                   matchesFilter(emitted'[i].payload.tx, advFilters[k])]_vars

-----------------------------------------------------------------------------
(* Claims about the evidence records                                       *)

C28_Tiers == { "wasmContract", "walletAddress", "jsonFilter", "eventFilter" }

\* the tiers the FilterManager of the call has configured
C28_Configured ==
  { tier \in C28_Tiers :
      \/ tier = "wasmContract"  /\ wasmContractFilter.kind # "null"
      \/ tier = "walletAddress" /\ walletAddresses # << >>
      \/ tier = "jsonFilter"    /\ DOMAIN fmOut.filters # {}
      \/ tier = "eventFilter"   /\ eventFilters # << >> }

\* the events the client emits after Tx for the transaction of the call
C28_ClientEmits ==
  EmitFiltered(wasmContractFilter, walletAddresses, fmOut.filters, eventFilters,
               << >>, fmIn)

C28_Emits(type) ==
  \E i \in DOMAIN C28_ClientEmits : C28_ClientEmits[i].type = type

\* C28: in every result of FilterManager.applyFilters, matchedFilters holds
\* at most one record per tier and none for a tier that is not configured,
\* and passed is true iff it holds a record for every configured tier;
\* consequently the client emits WasmTx (WalletTx) iff it emits FilteredTx
\* and the contract (wallet) tier is configured.
C28_EvidencePerTier ==
  fmOut.called =>
    LET records == fmOut.result.matchedFilters
        has(tier) == \E i \in DOMAIN records : records[i].filterType = tier
    IN  /\ \A i, j \in DOMAIN records :
             records[i].filterType = records[j].filterType => i = j
        /\ \A i \in DOMAIN records : records[i].filterType \in C28_Configured
        /\ fmOut.result.passed = (\A tier \in C28_Configured : has(tier))
        /\ C28_Emits("wasm_tx")
             = (C28_Emits("filtered_tx") /\ "wasmContract" \in C28_Configured)
        /\ C28_Emits("wallet_tx")
             = (C28_Emits("filtered_tx") /\ "walletAddress" \in C28_Configured)

\* three tiers are configured, two of them have a record, and the
\* transaction did not pass; the wallet tier is not configured although the
\* transaction has addresses
C28_Witness ==
  /\ fmOut.called
  /\ Cardinality(C28_Configured) = 3
  /\ "walletAddress" \notin C28_Configured
  /\ Len(fmOut.result.matchedFilters) = 2
  /\ ~fmOut.result.passed
  /\ ~C28_Emits("filtered_tx")

-----------------------------------------------------------------------------
(* Claims about loading the filter files on connect                        *)

\* C21: a filter-file load failure is surfaced to the caller and not
\* swallowed: when the load of a connect() fails, the promise connect
\* returned rejects or an Error event is emitted; the call does not go on
\* as if the filters had loaded.
C21_LoadFailureSurfaced ==
  [][\A c \in DOMAIN calls :
       (~calls[c].loadFailed /\ calls'[c].loadFailed)
         => \/ calls'[c].promise = "rejected"
            \/ \E i \in DOMAIN connEmitted' : connEmitted'[i].type = "error"]_vars

\* the keys of the configured filter files
C22_ConfiguredKeys == { filterFiles[i].key : i \in DOMAIN filterFiles }

\* C22: a (re)load of the filter files replaces the attribute-list map as a
\* whole: no message is filtered against a map that holds the keys of only
\* some of the configured files, and a load that fails part-way leaves the
\* map exactly as it was before the load started.
C22_AtomicReload ==
  [][/\ (lastMessage'.handled /\ lastMessage' # lastMessage)
          => DOMAIN jsonFilters \in { {}, C22_ConfiguredKeys }
     /\ \A c \in DOMAIN calls :
          (~calls[c].loadFailed /\ calls'[c].loadFailed)
            => jsonFilters' = calls[c].before]_vars

-----------------------------------------------------------------------------
(* Claims about reconnection                                               *)

\* the last connect() call whose socket opened, 0 when none did
C23_LastOpened ==
  IF \E c \in DOMAIN calls : calls[c].opened
  THEN CHOOSE c \in DOMAIN calls :
         calls[c].opened /\ \A d \in DOMAIN calls : calls[d].opened => d <= c
  ELSE 0

\* the connection attempts that handleReconnect has made or scheduled since
\* the last successful open
C23_AttemptsSinceOpen ==
  timers + Cardinality({ c \in DOMAIN calls :
                           c > C23_LastOpened /\ calls[c].by = "timer" })

C23_Bounded ==
  /\ 0 <= reconnectAttempts
  /\ reconnectAttempts <= maxReconnectAttempts
  /\ reconnectAttempts = C23_AttemptsSinceOpen

\* C23: automatic reconnection is bounded by maxReconnectAttempts: always
\* 0 <= reconnectAttempts <= maxReconnectAttempts, a reconnect is scheduled
\* after a close only while reconnectAttempts < maxReconnectAttempts, the
\* counter returns to 0 on every successful open, and after
\* maxReconnectAttempts consecutive attempts without a successful open no
\* further connection attempt is made.
C23_BoundedReconnection ==
  /\ []C23_Bounded
  /\ [][/\ timers' > timers => reconnectAttempts < maxReconnectAttempts
        /\ (\E c \in DOMAIN calls : ~calls[c].opened /\ calls'[c].opened)
             => reconnectAttempts' = 0
        /\ Len(calls') > Len(calls) /\ Len(calls) > 0 => timers' = timers - 1
        /\ reconnectAttempts = maxReconnectAttempts /\ reconnectAttempts' # 0
             => timers' <= timers]_vars

\* maxReconnectAttempts attempts were made after the last open, each failed,
\* and nothing more is scheduled
C23_Witness ==
  /\ maxReconnectAttempts = 2
  /\ reconnectAttempts = 2
  /\ timers = 0
  /\ Len(calls) = 3
  /\ calls[1].opened
  /\ \A c \in 2..3 : calls[c].by = "timer" /\ calls[c].stage = "closed"
                     /\ ~calls[c].opened
  /\ ~connected

-----------------------------------------------------------------------------
(* Claims about disconnect                                                 *)

\* C27: after the user calls disconnect() on a connected client, the close
\* of the socket does not start automatic reconnection: no Reconnecting
\* event is emitted, no new connection attempt is scheduled, and
\* isConnected() stays false from the close onward.
C27_DisconnectStopsReconnection ==
  [][\A c \in DOMAIN calls :
       /\ (/\ calls[c].userClosed
           /\ calls[c].opened
           /\ calls[c].stage # "closed"
           /\ calls'[c].stage = "closed")
            => /\ timers' = timers
               /\ \A i \in DOMAIN connEmitted' : connEmitted'[i].type # "reconnecting"
               /\ ~connected'
       /\ (calls[c].userClosed /\ calls[c].opened /\ calls[c].stage = "closed")
            => ~connected']_vars

-----------------------------------------------------------------------------
(* Claims about the subscription                                           *)

\* C30: every successful open of a socket, the first one and each one
\* reached through automatic reconnection, is followed by exactly one
\* subscription request sent on that socket with the configured
\* subscriptionQuery, after the Connected event and before any message of
\* that socket is handled; no subscription request is sent while no socket
\* is open.
C30_SubscribedOncePerOpen ==
  /\ [](\A c \in DOMAIN calls :
          /\ calls[c].opened =>
               calls[c].sent = << [jsonrpc |-> "2.0", method |-> "subscribe",
                                   params |-> << subscriptionQuery >>] >>
          /\ ~calls[c].opened => calls[c].sent = << >> /\ ~calls[c].received)
  /\ [][\A c \in DOMAIN calls :
          calls'[c].sent # calls[c].sent
            => /\ calls'[c].stage = "open"
               /\ ~calls[c].received
               /\ connEmitted' = << [type |-> "connected"] >>]_vars

\* a socket made by automatic reconnection opened, got its one request and
\* then delivered a message, as the first socket had
C30_Witness ==
  /\ Len(calls) >= 2
  /\ calls[1].by = "user" /\ Len(calls[1].sent) = 1 /\ calls[1].received
  /\ calls[2].by = "timer" /\ Len(calls[2].sent) = 1 /\ calls[2].received
  /\ calls[2].stage = "open"
  /\ lastMessage.handled

====
